---- MODULE Spec2Model ----
(***************************************************************************)
(* Model of the blood-supply allocation engine: the entity graph built by  *)
(* src/src/graph_builder.py and the EmergencyOrchestrator of               *)
(* src/src/orchestrator.py (local check, source discovery, greedy /        *)
(* learned allocation, notifications, reservation ledger), with the        *)
(* simulation driver's bulk clear of src/server.py.                        *)
(*                                                                         *)
(* Representation choices:                                                 *)
(*  - a Python None / missing attribute is the empty sequence <<>>, a      *)
(*    present number v is <<v>>; a missing or empty string is "";          *)
(*  - distances are integers in metres (the builder rounds distance_km to  *)
(*    three decimals), so distance_km = d / 1000;                          *)
(*  - coordinates are metres north along one meridian (lon is the same     *)
(*    non-zero value everywhere it is present), where the haversine        *)
(*    distance is the arc length |lat1 - lat2|;                            *)
(*  - the graph keeps nodes and edges in insertion order, as the dicts of  *)
(*    networkx.DiGraph do, and holds one edge per ordered pair of nodes.   *)
(***************************************************************************)
EXTENDS Integers, Sequences, FiniteSets, TLC

None == <<>>
Some(v) == <<v>>

\* Python truthiness of an optional number: None and 0 are falsy.
Truthy(opt) == opt # None /\ opt[1] # 0

Abs(x) == IF x < 0 THEN -x ELSE x

Range(s) == {s[i] : i \in 1..Len(s)}

RECURSIVE SeqSum(_)
SeqSum(s) == IF s = <<>> THEN 0 ELSE Head(s) + SeqSum(Tail(s))

RECURSIVE SeqMax(_)
SeqMax(s) ==
    IF Len(s) = 1 THEN Head(s)
    ELSE LET m == SeqMax(Tail(s)) IN IF Head(s) >= m THEN Head(s) ELSE m

(***************************************************************************)
(* Blood types and the compatibility rules.                                *)
(***************************************************************************)
BloodTypes == {"O-", "O+", "A-", "A+", "B-", "B+", "AB-", "AB+"}

\* donor type -> recipient types, the dict literal of _is_compatible
compatibility ==
    [d \in BloodTypes |->
        CASE d = "O-"  -> {"O-", "O+", "A-", "A+", "B-", "B+", "AB-", "AB+"}
          [] d = "O+"  -> {"O+", "A+", "B+", "AB+"}
          [] d = "A-"  -> {"A-", "A+", "AB-", "AB+"}
          [] d = "A+"  -> {"A+", "AB+"}
          [] d = "B-"  -> {"B-", "B+", "AB-", "AB+"}
          [] d = "B+"  -> {"B+", "AB+"}
          [] d = "AB-" -> {"AB-", "AB+"}
          [] d = "AB+" -> {"AB+"}]

\* variant: the table is read recipient -> donor
_is_compatible_reversed(donor_type, recipient_type) ==
    IF donor_type = "" \/ recipient_type = "" THEN FALSE
    ELSE IF recipient_type \in BloodTypes
         THEN donor_type \in compatibility[recipient_type]
         ELSE FALSE

_is_compatible(donor_type, recipient_type) ==
    IF donor_type = "" \/ recipient_type = "" THEN FALSE
    ELSE IF donor_type \in BloodTypes
         THEN recipient_type \in compatibility[donor_type]
         ELSE FALSE

(***************************************************************************)
(* The entity graph (networkx.DiGraph).                                    *)
(***************************************************************************)
EmptyAttrs ==
    [kind |-> "", lat |-> None, lon |-> None, blood_type |-> "",
     expiry_days_remaining |-> None, hospital_id |-> ""]

EmptyGraph == [nodes |-> <<>>, data |-> <<>>, edges |-> <<>>]

NodeIndex(G, id) ==
    IF \E i \in 1..Len(G.nodes) : G.nodes[i] = id
    THEN CHOOSE i \in 1..Len(G.nodes) : G.nodes[i] = id
    ELSE 0

\* `id in G`
HasNode(G, id) == NodeIndex(G, id) # 0

\* G.nodes.get(id, {}) with every missing key read as absent
NodeData(G, id) == IF HasNode(G, id) THEN G.data[NodeIndex(G, id)] ELSE EmptyAttrs

Merge(old, upd) == [k \in DOMAIN old |-> IF k \in DOMAIN upd THEN upd[k] ELSE old[k]]

\* G.add_node(id, **attrs): a new node is appended, an existing one updated
add_node(G, id, attrs) ==
    IF HasNode(G, id)
    THEN [G EXCEPT !.data[NodeIndex(G, id)] = Merge(@, attrs)]
    ELSE [G EXCEPT !.nodes = Append(@, id),
                   !.data = Append(@, Merge(EmptyAttrs, attrs))]

EdgeIndex(G, u, v) ==
    IF \E i \in 1..Len(G.edges) : G.edges[i].src = u /\ G.edges[i].dst = v
    THEN CHOOSE i \in 1..Len(G.edges) : G.edges[i].src = u /\ G.edges[i].dst = v
    ELSE 0

\* G.add_edge(u, v, **attrs): creates missing endpoints, and updates the
\* attributes of an existing u -> v edge in place
add_edge(G, u, v, attrs) ==
    LET G1 == add_node(add_node(G, u, <<>>), v, <<>>)
        i == EdgeIndex(G1, u, v)
    IN IF i # 0
       THEN [G1 EXCEPT !.edges[i] = Merge(@, attrs)]
       ELSE [G1 EXCEPT !.edges =
                Append(@, Merge([src |-> u, dst |-> v, predicate |-> "",
                                 distance_km |-> None], attrs))]

in_edges(G, n) == SelectSeq(G.edges, LAMBDA e : e.dst = n)
out_edges(G, n) == SelectSeq(G.edges, LAMBDA e : e.src = n)

\* variant: the difference of the latitudes with its sign
haversine_signed(lat1, lon1, lat2, lon2) == lat2 - lat1

haversine(lat1, lon1, lat2, lon2) == Abs(lat2 - lat1)

(***************************************************************************)
(* Graph construction (graph_builder.py).  The input tables are sequences  *)
(* of rows in file order.                                                  *)
(***************************************************************************)
\* a Python for loop over fold_seq that updates an accumulator.  The loop is
\* evaluated in blocks of eight rows so that the depth of the evaluation
\* grows with Len(fold_seq) \div 8; the guards prev = prev and
\* fold_init = fold_init have the accumulator evaluated before the loop body
\* uses it
FoldLeft(Op(_, _), fold_init, fold_seq) ==
    LET fold_n == Len(fold_seq)
        fold_blocks == (fold_n + 7) \div 8
        FoldBlock(base, lo, hi) ==
            LET fold_step[fold_j \in lo..hi] ==
                    IF fold_j = lo THEN base
                    ELSE LET prev == fold_step[fold_j - 1]
                         IN IF prev = prev THEN Op(prev, fold_seq[fold_j]) ELSE prev
            IN fold_step[hi]
        fold_acc[fold_b \in 0..fold_blocks] ==
            IF fold_b = 0 THEN fold_init
            ELSE LET prev == fold_acc[fold_b - 1]
                     hi == IF fold_b * 8 < fold_n THEN fold_b * 8 ELSE fold_n
                 IN IF prev = prev THEN FoldBlock(prev, (fold_b - 1) * 8, hi) ELSE prev
    IN IF fold_init = fold_init THEN fold_acc[fold_blocks] ELSE fold_init

\* kg["@graph"]: items [id, attrs, rels], rels a sequence of <<key, target id>>
build_graph_from_jsonld(kg) ==
    LET AddItem(G, item) == add_node(G, item.id, item.attrs)
        G0 == FoldLeft(AddItem, EmptyGraph, kg)
        AddRels(G, item) ==
            LET AddRel(g, rel) ==
                    IF HasNode(g, rel[2])
                    THEN add_edge(g, item.id, rel[2], [predicate |-> rel[1]])
                    ELSE g
            IN FoldLeft(AddRel, G, item.rels)
    IN FoldLeft(AddRels, G0, kg)

add_csv_entities(G, hospitals_df, blood_banks_df, donors_df, blood_units_df, emergencies_df) ==
    LET AddHospital(g, row) ==
            add_node(g, row.hospital_id,
                     [kind |-> "hospital", lat |-> row.lat, lon |-> row.lon])
        AddBank(g, row) ==
            add_node(g, row.bloodbank_id,
                     [kind |-> "bloodbank", lat |-> row.lat, lon |-> row.lon])
        AddDonor(g, row) ==
            add_node(g, row.donor_id,
                     [kind |-> "donor", blood_type |-> row.blood_type,
                      lat |-> row.lat, lon |-> row.lon])
        AddUnit(g, row) ==
            add_node(g, row.unit_id,
                     [kind |-> "blood_unit", blood_type |-> row.blood_type,
                      expiry_days_remaining |-> row.expiry_days_remaining])
        AddEmergency(g, row) ==
            add_node(g, row.event_id,
                     [kind |-> "emergency", hospital_id |-> row.hospital_id])
        G1 == FoldLeft(AddHospital, G, hospitals_df)
        G2 == FoldLeft(AddBank, G1, blood_banks_df)
        G3 == FoldLeft(AddDonor, G2, donors_df)
        G4 == FoldLeft(AddUnit, G3, blood_units_df)
    IN FoldLeft(AddEmergency, G4, emergencies_df)

add_edges_from_csv_table(G, edges_df) ==
    LET AddRow(g, row) == add_edge(g, row.source, row.target, [predicate |-> row.edge_type])
    IN FoldLeft(AddRow, G, edges_df)

\* default of add_domain_edges' nearby_km parameter, in metres
nearby_km == 3000

add_domain_edges(G, hospitals_df, blood_banks_df, donors_df, blood_units_df, emergencies_df) ==
    LET AtHospital(g, row) ==
            IF HasNode(g, row.event_id) /\ HasNode(g, row.hospital_id)
            THEN add_edge(g, row.event_id, row.hospital_id, [predicate |-> "AT_HOSPITAL"])
            ELSE g
        Locate(g, row) ==
            LET g1 == IF HasNode(g, row.unit_id) THEN g
                      ELSE add_node(g, row.unit_id, [kind |-> "blood_unit"])
                g2 == IF HasNode(g1, row.location_id) THEN g1
                      ELSE add_node(g1, row.location_id, [kind |-> row.location_type])
                g3 == add_edge(g2, row.unit_id, row.location_id, [predicate |-> "LOCATED_AT"])
            IN add_edge(g3, row.location_id, row.unit_id, [predicate |-> "HAS_BLOOD_UNIT"])
        NearHospital(g, hrow) ==
            LET NearBank(gb, bbrow) ==
                    IF bbrow.lat = None \/ bbrow.lon = None THEN gb
                    ELSE LET dist == haversine(hrow.lat[1], hrow.lon[1],
                                               bbrow.lat[1], bbrow.lon[1])
                         IN IF dist <= nearby_km
                            THEN add_edge(
                                     add_edge(gb, hrow.hospital_id, bbrow.bloodbank_id,
                                              [predicate |-> "NEARBY",
                                               distance_km |-> Some(dist)]),
                                     bbrow.bloodbank_id, hrow.hospital_id,
                                     [predicate |-> "NEARBY", distance_km |-> Some(dist)])
                            ELSE gb
            IN IF hrow.lat = None \/ hrow.lon = None THEN g
               ELSE FoldLeft(NearBank, g, blood_banks_df)
        \* BloodBank -> Donor (nearby)
        NearDonor(g, drow) ==
            LET DonorBank(gb, bbrow) ==
                    IF bbrow.lat = None \/ bbrow.lon = None THEN gb
                    ELSE LET dist == haversine(drow.lat[1], drow.lon[1],
                                               bbrow.lat[1], bbrow.lon[1])
                         IN IF dist <= nearby_km
                            THEN add_edge(gb, bbrow.bloodbank_id, drow.donor_id,
                                          [predicate |-> "NEARBY",
                                           distance_km |-> Some(dist)])
                            ELSE gb
            IN IF drow.lat = None \/ drow.lon = None THEN g
               ELSE FoldLeft(DonorBank, g, blood_banks_df)
        \* CAN_DONATE_TO: O- to all, else exact match
        builder_can_donate(d_bt, needed_bt) ==
            IF d_bt = "" \/ needed_bt = "" THEN FALSE
            ELSE IF d_bt = "O-" THEN TRUE
            ELSE d_bt = needed_bt
        DonateTo(g, drow) ==
            LET ToEvent(ge, erow) ==
                    IF builder_can_donate(drow.blood_type, erow.required_blood_type)
                    THEN add_edge(ge, drow.donor_id, erow.event_id,
                                  [predicate |-> "CAN_DONATE_TO"])
                    ELSE ge
            IN FoldLeft(ToEvent, g, emergencies_df)
        G1 == FoldLeft(AtHospital, G, emergencies_df)
        G2 == FoldLeft(Locate, G1, blood_units_df)
        G3 == FoldLeft(NearHospital, G2, hospitals_df)
        G4 == FoldLeft(NearDonor, G3, donors_df)
    IN FoldLeft(DonateTo, G4, donors_df)

\* a data set d is the record of the input tables
build_supply_graph(d) ==
    LET G1 == build_graph_from_jsonld(d.kg)
        G2 == add_csv_entities(G1, d.hospitals, d.blood_banks, d.donors, d.units,
                               d.emergencies)
        G3 == add_edges_from_csv_table(G2, d.edges)
    IN add_domain_edges(G3, d.hospitals, d.blood_banks, d.donors, d.units, d.emergencies)

(***************************************************************************)
(* EmergencyOrchestrator: the helper methods (pure functions of the graph).*)
(***************************************************************************)
\* sorted(s, key=Key): Python's sort is stable
RECURSIVE InsertSorted(_, _, _)
InsertSorted(Key(_), x, s) ==
    IF s = <<>> THEN <<x>>
    ELSE IF Key(x) < Key(Head(s)) THEN <<x>> \o s
         ELSE <<Head(s)>> \o InsertSorted(Key, x, Tail(s))

sorted(s, Key(_)) ==
    LET Ins(acc, x) == InsertSorted(Key, x, acc) IN FoldLeft(Ins, <<>>, s)

_check_local_inventory(G, hospital_id, blood_type) ==
    IF ~HasNode(G, hospital_id) THEN <<>>
    ELSE LET Step(local_units, e) ==
                 IF e.predicate = "HAS_BLOOD_UNIT"
                    /\ _is_compatible(NodeData(G, e.src).blood_type, blood_type)
                 THEN Append(local_units, e.src)
                 ELSE local_units
         IN FoldLeft(Step, <<>>, in_edges(G, hospital_id))

\* unit_data.get('expiry_days_remaining', 30)
DefaultExpiry == 30

\* variant: every compatible unit of the network, wherever it is (the loop
\* of _get_all_compatible_units), is taken as available at the location
_get_available_units_all(G, location_id, blood_type) ==
    IF ~HasNode(G, location_id) THEN <<>>
    ELSE LET nodes == SelectSeq([i \in 1..Len(G.nodes) |-> i],
                          LAMBDA i : /\ G.data[i].kind = "blood_unit"
                                     /\ _is_compatible(G.data[i].blood_type, blood_type))
         IN [k \in 1..Len(nodes) |->
                [unit_id |-> G.nodes[nodes[k]],
                 blood_type |-> G.data[nodes[k]].blood_type,
                 expiry_days |->
                     IF G.data[nodes[k]].expiry_days_remaining = None
                     THEN DefaultExpiry
                     ELSE G.data[nodes[k]].expiry_days_remaining[1]]]

_get_available_units(G, location_id, blood_type) ==
    IF ~HasNode(G, location_id) THEN <<>>
    ELSE LET Step(units, e) ==
                 LET unit_data == NodeData(G, e.src) IN
                 IF e.predicate = "HAS_BLOOD_UNIT"
                    /\ _is_compatible(unit_data.blood_type, blood_type)
                 THEN Append(units,
                             [unit_id |-> e.src,
                              blood_type |-> unit_data.blood_type,
                              expiry_days |->
                                  IF unit_data.expiry_days_remaining = None
                                  THEN DefaultExpiry
                                  ELSE unit_data.expiry_days_remaining[1]])
                 ELSE units
         IN FoldLeft(Step, <<>>, in_edges(G, location_id))

\* edge_data.get('distance_km', 5.0), in metres
DefaultNearbyDistance == 5000

\* max_distance = 20.0 km of the fallback scan, in metres
max_distance == 20000

_find_compatible_sources(G, hospital_id, blood_type, units_needed) ==
    IF ~HasNode(G, hospital_id) THEN <<>>
    ELSE
    LET hospital_data == NodeData(G, hospital_id)
        h_lat == hospital_data.lat
        h_lon == hospital_data.lon
        Source(loc, dist) ==
            [location_id |-> loc, distance_km |-> dist,
             available_units |-> _get_available_units(G, loc, blood_type)]
        \* Strategy 1: the NEARBY out-edges
        Fast(sources, e) ==
            IF e.predicate = "NEARBY"
               /\ NodeData(G, e.dst).kind \in {"bloodbank", "hospital"}
               /\ _get_available_units(G, e.dst, blood_type) # <<>>
            THEN Append(sources,
                        Source(e.dst, IF e.distance_km = None
                                      THEN DefaultNearbyDistance
                                      ELSE e.distance_km[1]))
            ELSE sources
        fast == FoldLeft(Fast, <<>>, out_edges(G, hospital_id))
        \* Strategy 2: every location within max_distance
        Within(node) ==
            LET data == NodeData(G, node) IN
            /\ Truthy(data.lat) /\ Truthy(data.lon)
            /\ haversine(h_lat[1], h_lon[1], data.lat[1], data.lon[1]) <= max_distance
            /\ _get_available_units(G, node, blood_type) # <<>>
        Dist(node) ==
            LET data == NodeData(G, node)
            IN haversine(h_lat[1], h_lon[1], data.lat[1], data.lon[1])
        Banks(sources, node) ==
            IF NodeData(G, node).kind = "bloodbank" /\ Within(node)
            THEN Append(sources, Source(node, Dist(node)))
            ELSE sources
        Hospitals(sources, node) ==
            IF NodeData(G, node).kind = "hospital" /\ node # hospital_id /\ Within(node)
            THEN Append(sources, Source(node, Dist(node)))
            ELSE sources
    IN IF Len(fast) = 0 /\ Truthy(h_lat) /\ Truthy(h_lon)
       THEN FoldLeft(Hospitals, FoldLeft(Banks, fast, G.nodes), G.nodes)
       ELSE fast

\* one transfer of the greedy allocation; score = 1.0 / (distance_km + 1) is
\* kept as the exact fraction num / den
GreedyTransfer(hospital_id, source, unit) ==
    [from |-> source.location_id, to |-> hospital_id, unit_id |-> unit.unit_id,
     blood_type |-> unit.blood_type, distance_km |-> source.distance_km,
     expiry_days |-> unit.expiry_days,
     score |-> [num |-> 1000, den |-> source.distance_km + 1000]]

SourceDistance(s) == s.distance_km
UnitExpiry(u) == u.expiry_days

RECURSIVE TakeUnits(_, _, _, _, _)
TakeUnits(transfers, hospital_id, source, units, units_needed) ==
    IF units = <<>> \/ Len(transfers) >= units_needed THEN transfers
    ELSE TakeUnits(Append(transfers, GreedyTransfer(hospital_id, source, Head(units))),
                   hospital_id, source, Tail(units), units_needed)

RECURSIVE WalkSources(_, _, _, _)
WalkSources(transfers, hospital_id, sources, units_needed) ==
    IF sources = <<>> THEN transfers
    ELSE LET t == TakeUnits(transfers, hospital_id, Head(sources),
                            sorted(Head(sources).available_units, UnitExpiry),
                            units_needed)
         IN IF Len(t) >= units_needed THEN t
            ELSE WalkSources(t, hospital_id, Tail(sources), units_needed)

\* variant: the sources are walked in input order, not by distance
_greedy_allocation_unsorted(hospital_id, sources, units_needed) ==
    WalkSources(<<>>, hospital_id, sources, units_needed)

\* variant: the walk stops one transfer late
_greedy_allocation_overrun(hospital_id, sources, units_needed) ==
    WalkSources(<<>>, hospital_id, sorted(sources, SourceDistance), units_needed + 1)

\* variant: every source is walked twice
_greedy_allocation_twice(hospital_id, sources, units_needed) ==
    WalkSources(<<>>, hospital_id, sorted(sources \o sources, SourceDistance), units_needed)

_greedy_allocation(hospital_id, sources, units_needed) ==
    WalkSources(<<>>, hospital_id, sorted(sources, SourceDistance), units_needed)

\* variant: the scorer's failure is swallowed and no plan is made
GreedyFallback_none(hospital_id, sources, units_needed) == <<>>

\* the except branch of step 3: the greedy allocation on the same arguments
GreedyFallback(hospital_id, sources, units_needed) ==
    _greedy_allocation(hospital_id, sources, units_needed)

_generate_notifications(hospital_id, transfers) ==
    LET Request(notifications, transfer) ==
            Append(notifications,
                   [recipient |-> transfer.from, type |-> "transfer_request",
                    unit_id |-> transfer.unit_id, units |-> 0])
    IN FoldLeft(Request,
                <<[recipient |-> hospital_id, type |-> "blood_incoming",
                   unit_id |-> "", units |-> Len(transfers)]>>,
                transfers)

\* variant: a unit that already has a ledger entry is not entered again
_reserve_units_dedup(ledger, transfers) ==
    LET Reserve(l, transfer) ==
            IF \E i \in 1..Len(l) : l[i].unit_id = transfer.unit_id THEN l
            ELSE Append(l, [unit_id |-> transfer.unit_id, status |-> "reserved"])
    IN FoldLeft(Reserve, ledger, transfers)

\* variant: the ledger is rebuilt from the call's transfers alone
_reserve_units_replace(ledger, transfers) ==
    [i \in 1..Len(transfers) |->
        [unit_id |-> transfers[i].unit_id, status |-> "reserved"]]

\* a transfer dict the scorer returned without the key 'unit_id'
Malformed(transfer) == transfer.unit_id = ""

\* the transfers up to the first one without 'unit_id': a loop that reads
\* transfer['unit_id'] raises KeyError there
WellFormedPrefix(transfers) ==
    IF \E i \in 1..Len(transfers) : Malformed(transfers[i])
    THEN SubSeq(transfers, 1,
                (CHOOSE i \in 1..Len(transfers) :
                    /\ Malformed(transfers[i])
                    /\ \A j \in 1..(i - 1) : ~Malformed(transfers[j])) - 1)
    ELSE transfers

\* the ledger entries _reserve_units appends (the timestamp is not modelled);
\* the loop ends at a transfer whose 'unit_id' is missing
_reserve_units(ledger, transfers) ==
    LET Reserve(l, transfer) ==
            Append(l, [unit_id |-> transfer.unit_id, status |-> "reserved"])
    IN FoldLeft(Reserve, ledger, WellFormedPrefix(transfers))

\* max([t['distance_km'] * 3 for t in transfers], default=0), in metre-minutes
MaxEta(transfers) ==
    IF transfers = <<>> THEN 0
    ELSE SeqMax([i \in 1..Len(transfers) |-> transfers[i].distance_km * 3])

\* variant: round(max_eta) instead of int(max_eta)
EtaMinutes_rounded(max_eta) == (max_eta + 500) \div 1000

\* int(max_eta)
EtaMinutes(max_eta) == max_eta \div 1000

(***************************************************************************)
(* The learned scorer, NeurosymbolicOrchestrator.find_optimal_transfers    *)
(* (gnn_model.py).  Scores are integers in millionths.                     *)
(***************************************************************************)
\* 10^6 * exp(-d / 10) for d = 0, 0.5, 1, ... , 40 km
ExpTable ==
    <<
       1000000, 951229, 904837, 860708, 818731, 778801, 740818, 704688, 670320,
       637628, 606531, 576950, 548812, 522046, 496585, 472367, 449329, 427415,
       406570, 386741, 367879, 349938, 332871, 316637, 301194, 286505, 272532,
       259240, 246597, 234570, 223130, 212248, 201897, 192050, 182684, 173774,
       165299, 157237, 149569, 142274, 135335, 128735, 122456, 116484, 110803,
       105399, 100259, 95369, 90718, 86294, 82085, 78082, 74274, 70651,
       67206, 63928, 60810, 57844, 55023, 52340, 49787, 47359, 45049,
       42852, 40762, 38774, 36883, 35084, 33373, 31746, 30197, 28725,
       27324, 25991, 24724, 23518, 22371, 21280, 20242, 19255, 18316
    >>

\* SymbolicBloodRules.calculate_distance_penalty, for distances in metres
calculate_distance_penalty(distance_km) ==
    LET i == distance_km \div 500
    IN IF i + 1 <= Len(ExpTable) THEN ExpTable[i + 1] ELSE 0

can_donate(donor_type, recipient_type) ==
    IF donor_type \in BloodTypes THEN recipient_type \in compatibility[donor_type] ELSE FALSE

\* the default estimate of _find_distance, 10.0 km
DefaultEstimate == 10000

_find_distance(G, source, target) ==
    IF EdgeIndex(G, source, target) # 0
    THEN LET e == G.edges[EdgeIndex(G, source, target)]
         IN IF e.distance_km = None THEN DefaultNearbyDistance ELSE e.distance_km[1]
    ELSE LET src_data == NodeData(G, source)
             tgt_data == NodeData(G, target)
         IN IF Truthy(src_data.lat) /\ Truthy(src_data.lon)
               /\ Truthy(tgt_data.lat) /\ Truthy(tgt_data.lon)
            THEN haversine(src_data.lat[1], src_data.lon[1], tgt_data.lat[1], tgt_data.lon[1])
            ELSE DefaultEstimate

\* the first LOCATED_AT out-edge's target, "" when there is none
LocatedAt(G, unit_id) ==
    LET es == SelectSeq(out_edges(G, unit_id), LAMBDA e : e.predicate = "LOCATED_AT")
    IN IF es = <<>> THEN "" ELSE es[1].dst

\* step 3: the compatible blood_unit nodes that have a location
ScorerUnits(G, required_type) ==
    LET Step(available_units, node) ==
            LET node_data == NodeData(G, node) IN
            IF node_data.kind = "blood_unit"
               /\ can_donate(node_data.blood_type, required_type)
               /\ LocatedAt(G, node) # ""
            THEN Append(available_units,
                        [unit_id |-> node, blood_type |-> node_data.blood_type,
                         location_id |-> LocatedAt(G, node),
                         expiry_days |->
                             IF node_data.expiry_days_remaining = None
                             THEN DefaultExpiry
                             ELSE node_data.expiry_days_remaining[1]])
            ELSE available_units
    IN FoldLeft(Step, <<>>, G.nodes)

\* find_optimal_transfers raises when _nx_to_pyg meets a hospital or blood
\* bank whose lat or lon is None (float(None); add_csv_entities always sets
\* both keys), when the emergency node is not in the graph
\* (G.nodes[emergency_node]) or when a unit has expiry_days = -1 (division by
\* zero)
ScorerRaises(G, emergency_node, required_type) ==
    \/ \E i \in 1..Len(G.nodes) :
           /\ G.data[i].kind \in {"hospital", "bloodbank"}
           /\ (G.data[i].lat = None \/ G.data[i].lon = None)
    \/ ~HasNode(G, emergency_node)
    \/ \E i \in 1..Len(ScorerUnits(G, required_type)) :
           ScorerUnits(G, required_type)[i].expiry_days = -1

NegScore(t) == -t.score.num

find_optimal_transfers(G, emergency_node, required_type, units_needed) ==
    LET hospital_id == NodeData(G, emergency_node).hospital_id
        Transfer(unit) ==
            LET distance_km == _find_distance(G, unit.location_id, hospital_id)
            IN [from |-> unit.location_id, to |-> hospital_id,
                unit_id |-> unit.unit_id, blood_type |-> unit.blood_type,
                distance_km |-> distance_km, expiry_days |-> unit.expiry_days,
                score |->
                    [num |-> 400000 \div (unit.expiry_days + 1)
                             + (3 * calculate_distance_penalty(distance_km)) \div 10
                             + 240000,
                     den |-> 1000000]]
        units == ScorerUnits(G, required_type)
        transfers == sorted([i \in 1..Len(units) |-> Transfer(units[i])], NegScore)
    IN SubSeq(transfers, 1, IF units_needed < Len(transfers)
                            THEN units_needed ELSE Len(transfers))

(***************************************************************************)
(* EmergencyOrchestrator: the proactive operations.                        *)
(***************************************************************************)
\* the first LOCATED_AT out-edge of the unit; "" is None
_get_unit_location(G, unit_id) ==
    IF ~HasNode(G, unit_id) THEN ""
    ELSE LET located == SelectSeq(out_edges(G, unit_id),
                                  LAMBDA e : e.predicate = "LOCATED_AT")
         IN IF located = <<>> THEN "" ELSE located[1].dst

\* variant: the first NEARBY out-neighbour of the location, of whatever kind
_find_best_destination_any(G, unit) ==
    IF ~HasNode(G, unit.location) THEN ""
    ELSE LET nearby == SelectSeq(out_edges(G, unit.location),
                                 LAMBDA e : e.predicate = "NEARBY")
         IN IF nearby = <<>> THEN "" ELSE nearby[1].dst

\* the first hospital among the NEARBY out-neighbours of the unit's location
_find_best_destination(G, unit) ==
    IF ~HasNode(G, unit.location) THEN ""
    ELSE LET hospitals == SelectSeq(out_edges(G, unit.location),
                                    LAMBDA e : /\ e.predicate = "NEARBY"
                                               /\ NodeData(G, e.dst).kind = "hospital")
         IN IF hospitals = <<>> THEN "" ELSE hospitals[1].dst

\* data.get('expiry_days_remaining', 999)
ExpiryOr999(data) ==
    IF data.expiry_days_remaining = None THEN 999 ELSE data.expiry_days_remaining[1]

\* both loops keep the node order: the first collects the expiring units
\* that have a location, the second those of them that have a destination
optimize_inventory(G) ==
    LET nodes == [i \in 1..Len(G.nodes) |-> i]
        expiring == SelectSeq(nodes,
                        LAMBDA i : /\ G.data[i].kind = "blood_unit"
                                   /\ ExpiryOr999(G.data[i]) <= 2
                                   /\ _get_unit_location(G, G.nodes[i]) # "")
        expiring_units ==
            [k \in 1..Len(expiring) |->
                [unit_id |-> G.nodes[expiring[k]],
                 blood_type |-> G.data[expiring[k]].blood_type,
                 location |-> _get_unit_location(G, G.nodes[expiring[k]]),
                 expiry_days |-> ExpiryOr999(G.data[expiring[k]])]]
        placed == SelectSeq(expiring_units,
                            LAMBDA unit : _find_best_destination(G, unit) # "")
    IN [k \in 1..Len(placed) |->
           [type |-> "expiry_prevention", unit_id |-> placed[k].unit_id,
            from |-> placed[k].location, to |-> _find_best_destination(G, placed[k]),
            blood_type |-> placed[k].blood_type,
            expiry_days |-> placed[k].expiry_days]]

\* the inventory dict as a sequence of [blood_type, count] in insertion
\* order; a unit without a blood type counts as 'Unknown'
_count_hospital_inventory(G, hospital_id) ==
    IF ~HasNode(G, hospital_id) THEN <<>>
    ELSE LET Count(inventory, e) ==
                 LET blood_type == NodeData(G, e.src).blood_type
                     bt == IF blood_type = "" THEN "Unknown" ELSE blood_type
                 IN IF e.predicate # "HAS_BLOOD_UNIT" THEN inventory
                    ELSE IF \E k \in 1..Len(inventory) : inventory[k].blood_type = bt
                    THEN [k \in 1..Len(inventory) |->
                             IF inventory[k].blood_type = bt
                             THEN [inventory[k] EXCEPT !.count = @ + 1]
                             ELSE inventory[k]]
                    ELSE Append(inventory, [blood_type |-> bt, count |-> 1])
         IN FoldLeft(Count, <<>>, in_edges(G, hospital_id))

\* recommended_action "Request {10 - count} units" is kept as the number
predict_shortages(G) ==
    LET hospitals == SelectSeq(G.nodes, LAMBDA n : NodeData(G, n).kind = "hospital")
        Hospital(predictions, hospital_id) ==
            LET low == SelectSeq(_count_hospital_inventory(G, hospital_id),
                                 LAMBDA item : item.count < 5)
            IN predictions \o
               [k \in 1..Len(low) |->
                   [hospital_id |-> hospital_id,
                    blood_type |-> low[k].blood_type,
                    current_units |-> low[k].count,
                    risk_level |-> IF low[k].count < 2 THEN "high" ELSE "medium",
                    recommended_units |-> 10 - low[k].count]]
    IN FoldLeft(Hospital, <<>>, hospitals)

\* edge_data.get('distance_km', 10.0), in metres
DefaultDonorDistance == 10000

NoCentre == [id |-> "", distance |-> 0]

\* the first bloodbank of least distance among the donor's NEARBY
\* out-neighbours; NoCentre is None
_find_nearest_bloodbank(G, donor_id) ==
    IF ~HasNode(G, donor_id) THEN NoCentre
    ELSE LET Nearer(nearest, e) ==
                 LET dist == IF e.distance_km = None THEN DefaultDonorDistance
                             ELSE e.distance_km[1]
                 IN IF /\ e.predicate = "NEARBY"
                       /\ NodeData(G, e.dst).kind = "bloodbank"
                       /\ (nearest = NoCentre \/ dist < nearest.distance)
                    THEN [id |-> e.dst, distance |-> dist]
                    ELSE nearest
         IN FoldLeft(Nearer, NoCentre, out_edges(G, donor_id))

\* variant: without the truncation
Top50_all(eligible_donors) == eligible_donors

\* eligible_donors[:50]
Top50(eligible_donors) ==
    SubSeq(eligible_donors, 1,
           IF Len(eligible_donors) < 50 THEN Len(eligible_donors) ELSE 50)

\* eligible_donors.sort(key=(0 if exact match else 1, distance_km)): the
\* entry at position i comes before the entry at j when its key is smaller,
\* or equal with i < j (the sort is stable)
SortDonors(eligible_donors, blood_type) ==
    LET n == Len(eligible_donors)
        Match(i) == IF eligible_donors[i].blood_type = blood_type THEN 0 ELSE 1
        Distance(i) == eligible_donors[i].distance_km
        Before(i, j) ==
            \/ Match(i) < Match(j)
            \/ Match(i) = Match(j) /\ Distance(i) < Distance(j)
            \/ Match(i) = Match(j) /\ Distance(i) = Distance(j) /\ i < j
        Place(i) == Cardinality({j \in 1..n : Before(j, i)}) + 1
    IN [k \in 1..n |-> eligible_donors[CHOOSE i \in 1..n : Place(i) = k]]

call_donors(G, blood_type) ==
    LET nodes == [i \in 1..Len(G.nodes) |-> i]
        eligible == SelectSeq(nodes,
                        LAMBDA i : /\ G.data[i].kind = "donor"
                                   /\ \/ G.data[i].blood_type = blood_type
                                      \/ G.data[i].blood_type = "O-"
                                   /\ _find_nearest_bloodbank(G, G.nodes[i]) # NoCentre)
        eligible_donors ==
            [k \in 1..Len(eligible) |->
                LET nearest_bb == _find_nearest_bloodbank(G, G.nodes[eligible[k]])
                IN [donor_id |-> G.nodes[eligible[k]],
                    blood_type |-> G.data[eligible[k]].blood_type,
                    nearest_center |-> nearest_bb.id,
                    distance_km |-> nearest_bb.distance]]
    IN Top50(SortDonors(eligible_donors, blood_type))

(***************************************************************************)
(* Input data: the tables the graph is built from.                         *)
(***************************************************************************)
\* latitudes in metres; None is a row without coordinates
Layouts ==
    [near     |-> [h1 |-> Some(10000), h2 |-> Some(12500),
                   b1 |-> Some(11000), b2 |-> Some(13000)],
     far      |-> [h1 |-> Some(10000), h2 |-> Some(20000),
                   b1 |-> Some(15000), b2 |-> Some(45000)],
     nocoords |-> [h1 |-> None, h2 |-> Some(13000),
                   b1 |-> Some(11500), b2 |-> None],
     \* h1 lies on the equator (lat = 0.0), b1 is 1 km and b2 7 km from h2
     mixed    |-> [h1 |-> Some(0), h2 |-> Some(10000),
                   b1 |-> Some(11000), b2 |-> Some(17000)]]

\* the longitude shared by every node that has coordinates
LonOf(lat) == IF lat = None THEN None ELSE Some(74000)

\* A stock plan lists the units: `located` is the location_id of the unit's
\* row of the units table ("" = the unit has no row there), `stocked` the
\* target of a unit -> location HAS_BLOOD_UNIT relation given by the
\* knowledge graph (via = "kg") or by the edge table (via = "csv").
Unit(id, bt, expiry, located, stocked, via) ==
    [unit_id |-> id, blood_type |-> bt, expiry_days_remaining |-> expiry,
     located |-> located, stocked |-> stocked, via |-> via]

StockPlans ==
    [shared  |-> <<Unit("u1", "O-", 5, "", "b1", "kg"),
                   Unit("u2", "O-", 1, "", "b2", "kg"),
                   Unit("u3", "A+", 3, "", "b1", "kg")>>,
     local   |-> <<Unit("u1", "O-", 5, "", "h1", "kg"),
                   Unit("u2", "A+", 1, "", "h1", "kg"),
                   Unit("u3", "O-", 3, "", "b2", "kg")>>,
     built   |-> <<Unit("u1", "O-", 5, "h1", "", ""),
                   Unit("u2", "O-", 1, "b1", "", ""),
                   Unit("u3", "A+", 3, "h1", "", "")>>,
     crossed |-> <<Unit("u1", "O-", 5, "b1", "b2", "csv"),
                   Unit("u2", "A+", 1, "b2", "b1", "csv"),
                   Unit("u3", "O-", 3, "h2", "h1", "csv")>>,
     \* units whose expiry_days_remaining is 0 or negative
     expired |-> <<Unit("u1", "O-", 0, "", "h1", "kg"),
                   Unit("u2", "O-", -1, "", "b1", "kg"),
                   Unit("u3", "O-", 2, "", "b1", "kg")>>]

KindOf(loc) == IF loc \in {"h1", "h2"} THEN "hospital" ELSE "bloodbank"

DataSet(layout, plan) ==
    LET kgUnits == SelectSeq(plan, LAMBDA u : u.via = "kg")
        dfUnits == SelectSeq(plan, LAMBDA u : u.located # "")
        csvUnits == SelectSeq(plan, LAMBDA u : u.via = "csv")
        Place(id) == [id |-> id, attrs |-> [kind |-> KindOf(id)], rels |-> <<>>]
    IN [kg |-> IF kgUnits = <<>> THEN <<>>
               ELSE <<Place("h1"), Place("h2"), Place("b1"), Place("b2")>> \o
                    [i \in 1..Len(kgUnits) |->
                        [id |-> kgUnits[i].unit_id,
                         attrs |-> [kind |-> "blood_unit",
                                    blood_type |-> kgUnits[i].blood_type,
                                    expiry_days_remaining |->
                                        Some(kgUnits[i].expiry_days_remaining)],
                         rels |-> <<<<"HAS_BLOOD_UNIT", kgUnits[i].stocked>>>>]],
        hospitals |-> <<[hospital_id |-> "h1", lat |-> layout.h1, lon |-> LonOf(layout.h1)],
                        [hospital_id |-> "h2", lat |-> layout.h2, lon |-> LonOf(layout.h2)]>>,
        blood_banks |-> <<[bloodbank_id |-> "b1", lat |-> layout.b1, lon |-> LonOf(layout.b1)],
                          [bloodbank_id |-> "b2", lat |-> layout.b2, lon |-> LonOf(layout.b2)]>>,
        units |-> [i \in 1..Len(dfUnits) |->
                      [unit_id |-> dfUnits[i].unit_id,
                       blood_type |-> dfUnits[i].blood_type,
                       expiry_days_remaining |-> Some(dfUnits[i].expiry_days_remaining),
                       location_id |-> dfUnits[i].located,
                       location_type |-> KindOf(dfUnits[i].located)]],
        donors |-> <<>>,
        emergencies |-> <<[event_id |-> "e1", hospital_id |-> "h1",
                           required_blood_type |-> "O-"]>>,
        edges |-> [i \in 1..Len(csvUnits) |->
                      [source |-> csvUnits[i].unit_id, target |-> csvUnits[i].stocked,
                       edge_type |-> "HAS_BLOOD_UNIT"]]]

(***************************************************************************)
(* State.                                                                  *)
(***************************************************************************)
VARIABLES
    G,                \* self.G, the supply graph
    gnn,              \* self.gnn: "none", "raises", "learned", "hangs" or "malformed"
    active_transfers, \* self.active_transfers, the reservation ledger
    req,              \* the handle_emergency calls: locals and position
    greedy_call,      \* a direct call of _greedy_allocation: arguments and result
    compat_call,      \* a direct call of _is_compatible: arguments and result
    ops_call,         \* a direct call of optimize_inventory, predict_shortages or
                      \* call_donors: the operation, its argument and its result
    build_call        \* a direct call of add_domain_edges: the tables, and the
                      \* graph before and after it

vars == <<G, gnn, active_transfers, req, greedy_call, compat_call, ops_call, build_call>>

MaxUnitsRequired == 2

\* the request threads: Flask's request handlers and the simulation thread
Requests == {"r1", "r2"}

HospitalIds == {"h1", "h2", "hx"}
RequestTypes == {"O-", "A+"}

NoResult ==
    [status |-> "", transfers |-> <<>>, units_secured |-> 0, eta_minutes |-> 0,
     notifications |-> <<>>]

Idle ==
    [pc |-> "idle", emergency_id |-> "", hospital_id |-> "", required_blood_type |-> "",
     units_required |-> 0, local_units |-> <<>>, units_needed |-> 0,
     compatible_sources |-> <<>>, transfers |-> <<>>, max_eta |-> 0,
     notifications |-> <<>>, result |-> NoResult, error |-> ""]

NoGreedyCall ==
    [hospital_id |-> "", sources |-> <<>>, units_needed |-> 0, transfers |-> <<>>,
     returned |-> FALSE]

NoCompatCall ==
    [donor_type |-> "", recipient_type |-> "", result |-> FALSE, returned |-> FALSE]

NoOpsCall == [op |-> "", blood_type |-> "", result |-> <<>>]

NoBuildCall ==
    [hospitals_df |-> <<>>, blood_banks_df |-> <<>>, graph |-> EmptyGraph,
     returned |-> FALSE]

Configs ==
    {"near", "far", "nocoords", "mixed"} \X {"shared", "local", "built", "crossed", "expired"}

Init ==
    /\ \E c \in Configs : G = build_supply_graph(DataSet(Layouts[c[1]], StockPlans[c[2]]))
    /\ gnn \in {"none", "raises", "learned", "hangs", "malformed"}
    /\ active_transfers = <<>>
    /\ req = [r \in Requests |-> Idle]
    /\ greedy_call = NoGreedyCall
    /\ compat_call = NoCompatCall
    /\ ops_call = NoOpsCall
    /\ build_call = NoBuildCall

(***************************************************************************)
(* handle_emergency, one action per step.                                  *)
(***************************************************************************)
\* entry and step 1: the hospital's own inventory
LocalCheck(r) ==
    /\ req[r].pc = "idle"
    /\ \E hospital_id \in HospitalIds, required_blood_type \in RequestTypes,
          units_required \in 1..MaxUnitsRequired,
          emergency_id \in (IF gnn = "learned" THEN {"e1", "ex"} ELSE {"ex"}) :
        LET local_units == _check_local_inventory(G, hospital_id, required_blood_type)
            units_needed == units_required - Len(local_units)
            called == [req[r] EXCEPT !.emergency_id = emergency_id,
                                     !.hospital_id = hospital_id,
                                     !.required_blood_type = required_blood_type,
                                     !.units_required = units_required,
                                     !.local_units = local_units,
                                     !.units_needed = units_needed]
        IN req' = [req EXCEPT ![r] =
                IF units_needed <= 0
                THEN [called EXCEPT !.pc = "done",
                                    !.result = [NoResult EXCEPT
                                        !.status = "success",
                                        !.units_secured = Len(local_units)]]
                ELSE [called EXCEPT !.pc = "sourcing"]]
    /\ UNCHANGED <<G, gnn, active_transfers, greedy_call, compat_call, ops_call, build_call>>

\* variant: step 2 without the early return on an empty list of sources
FindSources_noreturn(r) ==
    /\ req[r].pc = "sourcing"
    /\ req' = [req EXCEPT ![r] = [@ EXCEPT
                  !.pc = "allocating",
                  !.compatible_sources =
                      _find_compatible_sources(G, req[r].hospital_id,
                                               req[r].required_blood_type,
                                               req[r].units_needed)]]
    /\ UNCHANGED <<G, gnn, active_transfers, greedy_call, compat_call, ops_call, build_call>>

\* variant: the 'failed' return enters the hospital's own units in the ledger
FindSources_recording(r) ==
    /\ req[r].pc = "sourcing"
    /\ LET compatible_sources ==
               _find_compatible_sources(G, req[r].hospital_id,
                                        req[r].required_blood_type, req[r].units_needed)
           failed == compatible_sources = <<>>
       IN /\ req' = [req EXCEPT ![r] =
                 IF failed
                 THEN [@ EXCEPT !.pc = "done",
                                !.result = [NoResult EXCEPT
                                    !.status = "failed",
                                    !.units_secured = Len(req[r].local_units)]]
                 ELSE [@ EXCEPT !.pc = "allocating",
                                !.compatible_sources = compatible_sources]]
          /\ active_transfers' =
                 IF failed
                 THEN _reserve_units(active_transfers,
                                     [i \in 1..Len(req[r].local_units) |->
                                         [unit_id |-> req[r].local_units[i]]])
                 ELSE active_transfers
    /\ UNCHANGED <<G, gnn, greedy_call, compat_call, ops_call, build_call>>

\* step 2: source discovery
FindSources(r) ==
    /\ req[r].pc = "sourcing"
    /\ LET compatible_sources ==
               _find_compatible_sources(G, req[r].hospital_id,
                                        req[r].required_blood_type, req[r].units_needed)
       IN req' = [req EXCEPT ![r] =
               IF compatible_sources = <<>>
               THEN [@ EXCEPT !.pc = "done",
                              !.result = [NoResult EXCEPT
                                  !.status = "failed",
                                  !.units_secured = Len(req[r].local_units)]]
               ELSE [@ EXCEPT !.pc = "allocating",
                              !.compatible_sources = compatible_sources]]
    /\ UNCHANGED <<G, gnn, active_transfers, greedy_call, compat_call, ops_call, build_call>>

\* step 3 with a scorer whose call never returns: the call is made without
\* a timeout, and the request waits in it
ScorerBlocks(r) ==
    /\ req[r].pc = "allocating"
    /\ gnn = "hangs"
    /\ req' = [req EXCEPT ![r] = [@ EXCEPT !.pc = "scoring"]]
    /\ UNCHANGED <<G, gnn, active_transfers, greedy_call, compat_call, ops_call, build_call>>

\* what a scorer returns whose last transfer lacks the key 'unit_id'
MalformedTransfers(transfers) ==
    IF transfers = <<>> THEN transfers
    ELSE [transfers EXCEPT ![Len(transfers)] = [@ EXCEPT !.unit_id = ""]]

\* variant: step 3 leaves out the units that already have a ledger entry
Allocate_excluding(r) ==
    /\ req[r].pc = "allocating"
    /\ gnn # "hangs"
    /\ LET Free(u) == \A i \in 1..Len(active_transfers) :
                          active_transfers[i].unit_id # u.unit_id
           sources == [i \in 1..Len(req[r].compatible_sources) |->
                          [req[r].compatible_sources[i] EXCEPT
                              !.available_units = SelectSeq(@, Free)]]
           transfers == _greedy_allocation(req[r].hospital_id, sources,
                                           req[r].units_needed)
       IN req' = [req EXCEPT ![r] = [@ EXCEPT !.pc = "notifying",
                                              !.transfers = transfers,
                                              !.max_eta = MaxEta(transfers)]]
    /\ UNCHANGED <<G, gnn, active_transfers, greedy_call, compat_call, ops_call, build_call>>

\* steps 3 and 4: the transfer plan (scorer, with the greedy fallback when it
\* raises) and the ETA
Allocate(r) ==
    /\ req[r].pc = "allocating"
    /\ gnn # "hangs"
    /\ LET greedy == _greedy_allocation(req[r].hospital_id, req[r].compatible_sources,
                                        req[r].units_needed)
           transfers ==
               IF gnn = "none" THEN greedy
               ELSE IF gnn = "malformed" THEN MalformedTransfers(greedy)
               ELSE IF gnn = "learned"
                       /\ ~ScorerRaises(G, req[r].emergency_id, req[r].required_blood_type)
               THEN find_optimal_transfers(G, req[r].emergency_id,
                                           req[r].required_blood_type, req[r].units_needed)
               ELSE GreedyFallback(req[r].hospital_id, req[r].compatible_sources,
                                   req[r].units_needed)
       IN req' = [req EXCEPT ![r] = [@ EXCEPT !.pc = "notifying",
                                              !.transfers = transfers,
                                              !.max_eta = MaxEta(transfers)]]
    /\ UNCHANGED <<G, gnn, active_transfers, greedy_call, compat_call, ops_call, build_call>>

\* variant: step 5 builds the notifications without reading the transfers' keys
Notify_unchecked(r) ==
    /\ req[r].pc = "notifying"
    /\ req' = [req EXCEPT ![r] = [@ EXCEPT
                  !.pc = "reserving",
                  !.notifications =
                      _generate_notifications(req[r].hospital_id, req[r].transfers)]]
    /\ UNCHANGED <<G, gnn, active_transfers, greedy_call, compat_call, ops_call, build_call>>

\* step 5: notifications; transfer['unit_id'] (line 403) raises KeyError on a
\* transfer without that key, and the call ends with the exception
Notify(r) ==
    /\ req[r].pc = "notifying"
    /\ req' = [req EXCEPT ![r] =
           IF \E i \in 1..Len(req[r].transfers) : Malformed(req[r].transfers[i])
           THEN [@ EXCEPT !.pc = "raised", !.error = "'unit_id'"]
           ELSE [@ EXCEPT
                  !.pc = "reserving",
                  !.notifications =
                      _generate_notifications(req[r].hospital_id, req[r].transfers)]]
    /\ UNCHANGED <<G, gnn, active_transfers, greedy_call, compat_call, ops_call, build_call>>

\* variant: step 6 also marks every reserved unit consumed in the graph
Reserve_consuming(r) ==
    /\ req[r].pc = "reserving"
    /\ active_transfers' = _reserve_units(active_transfers, req[r].transfers)
    /\ G' = LET Consume(g, transfer) == add_node(g, transfer.unit_id, [kind |-> "consumed"])
            IN FoldLeft(Consume, G, WellFormedPrefix(req[r].transfers))
    /\ req' = [req EXCEPT ![r] =
           IF \E i \in 1..Len(req[r].transfers) : Malformed(req[r].transfers[i])
           THEN [@ EXCEPT !.pc = "raised", !.error = "'unit_id'"]
           ELSE [@ EXCEPT !.pc = "responding"]]
    /\ UNCHANGED <<gnn, greedy_call, compat_call, ops_call, build_call>>

\* step 6: reserve the units; transfer['unit_id'] (line 413) raises KeyError
\* on a transfer without that key, after the appends for the transfers before it
Reserve(r) ==
    /\ req[r].pc = "reserving"
    /\ active_transfers' = _reserve_units(active_transfers, req[r].transfers)
    /\ req' = [req EXCEPT ![r] =
           IF \E i \in 1..Len(req[r].transfers) : Malformed(req[r].transfers[i])
           THEN [@ EXCEPT !.pc = "raised", !.error = "'unit_id'"]
           ELSE [@ EXCEPT !.pc = "responding"]]
    /\ UNCHANGED <<G, gnn, greedy_call, compat_call, ops_call, build_call>>

\* the status and the returned record
Respond(r) ==
    /\ req[r].pc = "responding"
    /\ req' = [req EXCEPT ![r] = [@ EXCEPT
                  !.pc = "done",
                  !.result =
                      [status |-> IF Len(req[r].transfers) >= req[r].units_needed
                                  THEN "success" ELSE "partial",
                       transfers |-> req[r].transfers,
                       units_secured |-> Len(req[r].local_units) + Len(req[r].transfers),
                       eta_minutes |-> EtaMinutes(req[r].max_eta),
                       notifications |-> req[r].notifications]]]
    /\ UNCHANGED <<G, gnn, active_transfers, greedy_call, compat_call, ops_call, build_call>>

\* the keys the /api/emergency route reads from the request body, in the
\* order in which it reads them
RequiredFields == <<"emergency_id", "hospital_id", "required_blood_type", "units_required">>

\* str(KeyError(key))
KeyErrorText(key) == "'" \o key \o "'"

\* the /api/emergency route on a body without some of the keys: data[key]
\* raises KeyError at the first missing one, before handle_emergency is
\* called, and the route's except clause answers
RejectRequest(r) ==
    /\ req[r].pc = "idle"
    /\ \E present \in SUBSET Range(RequiredFields) :
          /\ present # Range(RequiredFields)
          /\ LET first == CHOOSE i \in 1..Len(RequiredFields) :
                              /\ RequiredFields[i] \notin present
                              /\ \A j \in 1..(i - 1) : RequiredFields[j] \in present
             IN req' = [req EXCEPT ![r] =
                     [@ EXCEPT !.pc = "rejected",
                               !.error = KeyErrorText(RequiredFields[first])]]
    /\ UNCHANGED <<G, gnn, active_transfers, greedy_call, compat_call, ops_call, build_call>>

\* the answer of the route to a request that has ended: jsonify(result)
\* with status 200, or the except clause's ({'error': str(e), 'transfers':
\* []}, 500) (lines 162-164); fields are the keys of the JSON body
HttpResponse(r) ==
    IF req[r].pc \in {"rejected", "raised"}
    THEN [code |-> 500, fields |-> {"error", "transfers"}, error |-> req[r].error,
          status |-> ""]
    ELSE [code |-> 200,
          fields |-> {"status", "transfers", "units_secured", "eta_minutes", "message"}
                     \cup (IF req[r].result.status = "failed" THEN {}
                           ELSE IF req[r].result.transfers = <<>>
                                   /\ req[r].result.notifications = <<>>
                           THEN {"source"}
                           ELSE {"notifications"}),
          error |-> "", status |-> req[r].result.status]

\* server.py, simulate_emergencies: orchestrator.active_transfers.clear()
Clear ==
    /\ active_transfers # <<>>
    /\ active_transfers' = <<>>
    /\ UNCHANGED <<G, gnn, req, greedy_call, compat_call, ops_call, build_call>>

Next ==
    \/ \E r \in Requests : RejectRequest(r)
    \/ \E r \in Requests : LocalCheck(r)
    \/ \E r \in Requests : FindSources(r)
    \/ \E r \in Requests : ScorerBlocks(r)
    \/ \E r \in Requests : Allocate(r)
    \/ \E r \in Requests : Notify(r)
    \/ \E r \in Requests : Reserve(r)
    \/ \E r \in Requests : Respond(r)
    \/ Clear

Spec == Init /\ [][Next]_vars

(***************************************************************************)
(* _greedy_allocation called directly, on bounded lists of sources.        *)
(***************************************************************************)
MaxSources == 2
MaxUnitsPerSource == 2
MaxNeeded == 3

GreedyDistances == {1000, 2000, 5000}
GreedyExpiries == {1, 3}

SourceNames == <<"s1", "s2", "s3", "s4">>
UnitNames ==
    <<<<"s1u1", "s1u2", "s1u3", "s1u4">>, <<"s2u1", "s2u2", "s2u3", "s2u4">>,
      <<"s3u1", "s3u2", "s3u3", "s3u4">>, <<"s4u1", "s4u2", "s4u3", "s4u4">>>>

GreedyUnit(id, expiry) == [unit_id |-> id, blood_type |-> "O-", expiry_days |-> expiry]
GreedySource(loc, dist, units) ==
    [location_id |-> loc, distance_km |-> dist, available_units |-> units]

\* sources at 2, 5 and 1 km holding one unit each, expiring in 3, 1 and 9 days
OrderingExample ==
    <<GreedySource("s1", 2000, <<GreedyUnit("s1u1", 3)>>),
      GreedySource("s2", 5000, <<GreedyUnit("s2u1", 1)>>),
      GreedySource("s3", 1000, <<GreedyUnit("s3u1", 9)>>)>>

\* bank b1 at 3 km with units expiring in 10, 2 and 30 days, bank b2 at 1 km
\* with four units expiring in 1 day
EndToEndExample ==
    <<GreedySource("b1", 3000, <<GreedyUnit("b1u1", 10), GreedyUnit("b1u2", 2),
                                 GreedyUnit("b1u3", 30)>>),
      GreedySource("b2", 1000, <<GreedyUnit("b2u1", 1), GreedyUnit("b2u2", 1),
                                 GreedyUnit("b2u3", 1), GreedyUnit("b2u4", 1)>>)>>

ExpiryLists == UNION {[1..n -> GreedyExpiries] : n \in 0..MaxUnitsPerSource}

\* the list of sources given by the distance and the expiry list of each
GreedySourceList(c) ==
    [i \in 1..Len(c) |->
        GreedySource(SourceNames[i], c[i][1],
                     [j \in 1..Len(c[i][2]) |-> GreedyUnit(UnitNames[i][j], c[i][2][j])])]

GreedyInit ==
    /\ G = EmptyGraph
    /\ gnn = "none"
    /\ active_transfers = <<>>
    /\ req = [r \in Requests |-> Idle]
    /\ compat_call = NoCompatCall
    /\ ops_call = NoOpsCall
    /\ build_call = NoBuildCall
    /\ \/ \E n \in 0..MaxSources, units_needed \in 1..MaxNeeded :
           \E c \in [1..n -> GreedyDistances \X ExpiryLists] :
              greedy_call = [NoGreedyCall EXCEPT !.hospital_id = "h1",
                                                 !.sources = GreedySourceList(c),
                                                 !.units_needed = units_needed]
       \/ greedy_call = [NoGreedyCall EXCEPT !.hospital_id = "h1",
                                             !.sources = OrderingExample,
                                             !.units_needed = 2]
       \/ greedy_call = [NoGreedyCall EXCEPT !.hospital_id = "h1",
                                             !.sources = EndToEndExample,
                                             !.units_needed = 5]

GreedyCall ==
    /\ ~greedy_call.returned
    /\ greedy_call' =
           [greedy_call EXCEPT
               !.transfers = _greedy_allocation(greedy_call.hospital_id,
                                                greedy_call.sources,
                                                greedy_call.units_needed),
               !.returned = TRUE]
    /\ UNCHANGED <<G, gnn, active_transfers, req, compat_call, ops_call, build_call>>

GreedyNext == GreedyCall

GreedySpec == GreedyInit /\ [][GreedyNext]_vars

(***************************************************************************)
(* _is_compatible called directly, on every pair of type strings.          *)
(***************************************************************************)
\* the 8 types, the empty string (also standing for None) and strings that
\* are no blood type
TypeInputs == BloodTypes \cup {"", "X", "o-", "AB"}

CompatInit ==
    /\ G = EmptyGraph
    /\ gnn = "none"
    /\ active_transfers = <<>>
    /\ req = [r \in Requests |-> Idle]
    /\ greedy_call = NoGreedyCall
    /\ ops_call = NoOpsCall
    /\ build_call = NoBuildCall
    /\ \E donor_type \in TypeInputs, recipient_type \in TypeInputs :
           compat_call = [NoCompatCall EXCEPT !.donor_type = donor_type,
                                              !.recipient_type = recipient_type]

CompatCall ==
    /\ ~compat_call.returned
    /\ compat_call' =
           [compat_call EXCEPT
               !.result = _is_compatible(compat_call.donor_type,
                                         compat_call.recipient_type),
               !.returned = TRUE]
    /\ UNCHANGED <<G, gnn, active_transfers, req, greedy_call, ops_call, build_call>>

CompatNext == CompatCall

CompatSpec == CompatInit /\ [][CompatNext]_vars

(***************************************************************************)
(* optimize_inventory, predict_shortages and call_donors called directly,  *)
(* on graphs with units at banks and hospitals and with donors.            *)
(***************************************************************************)
OpsUnitPlans ==
    [\* units of the units table, some about to expire
     expiring |-> <<Unit("u1", "O-", 1, "b1", "", ""),
                    Unit("u2", "A+", 5, "b1", "", ""),
                    Unit("u3", "O-", 2, "b2", "", ""),
                    Unit("u4", "A+", 3, "h1", "", ""),
                    Unit("u5", "B+", 0, "h1", "", "")>>,
     \* hospital stock in the units table: h1 holds 4 O- and 1 A+, h2 5 O-
     wards    |-> <<Unit("w1", "O-", 9, "h1", "", ""), Unit("w2", "O-", 9, "h1", "", ""),
                    Unit("w3", "O-", 9, "h1", "", ""), Unit("w4", "O-", 9, "h1", "", ""),
                    Unit("w5", "A+", 9, "h1", "", ""), Unit("w6", "O-", 9, "h2", "", ""),
                    Unit("w7", "O-", 9, "h2", "", ""), Unit("w8", "O-", 9, "h2", "", ""),
                    Unit("w9", "O-", 9, "h2", "", ""), Unit("w10", "O-", 9, "h2", "", "")>>,
     \* the same stock as unit -> hospital relations of the knowledge graph
     wardskg  |-> <<Unit("w1", "O-", 9, "", "h1", "kg"), Unit("w2", "O-", 9, "", "h1", "kg"),
                    Unit("w3", "O-", 9, "", "h1", "kg"), Unit("w4", "O-", 9, "", "h1", "kg"),
                    Unit("w5", "A+", 9, "", "h1", "kg"), Unit("w6", "O-", 9, "", "h2", "kg"),
                    Unit("w7", "O-", 9, "", "h2", "kg"), Unit("w8", "O-", 9, "", "h2", "kg"),
                    Unit("w9", "O-", 9, "", "h2", "kg"), Unit("w10", "O-", 9, "", "h2", "kg")>>]

Donor(id, bt, lat) == [donor_id |-> id, blood_type |-> bt, lat |-> lat, lon |-> LonOf(lat)]

\* the donors table: d3 lives far from every bank, d4 has no coordinates,
\* d5 no blood type
Registered ==
    <<Donor("d1", "A+", Some(11500)), Donor("d2", "O-", Some(12000)),
      Donor("d3", "B+", Some(30000)), Donor("d4", "A+", None),
      Donor("d5", "", Some(12000))>>

Link(src, dst, distance_km) ==
    [src |-> src, dst |-> dst, predicate |-> "NEARBY", distance_km |-> distance_km]

\* donor -> centre NEARBY edges: d2 -> b1 carries no distance_km, d3's only
\* neighbour is a hospital
Outward ==
    <<Link("d1", "b1", Some(2000)), Link("d1", "b2", Some(500)),
      Link("d2", "b1", None), Link("d2", "b2", Some(12000)),
      Link("d3", "h1", Some(1000)), Link("d4", "b2", Some(700)),
      Link("d4", "b1", Some(700)), Link("d5", "b1", Some(100))>>

DonorPlans ==
    [none       |-> [donors |-> <<>>, links |-> <<>>],
     registered |-> [donors |-> Registered, links |-> <<>>],
     outward    |-> [donors |-> Registered, links |-> Outward]]

\* more eligible donors than call_donors returns
CrowdSize == 52

CrowdPlan ==
    [donors |-> [i \in 1..CrowdSize |->
                    Donor("c" \o ToString(i), IF i % 2 = 0 THEN "A+" ELSE "O-", None)],
     links  |-> [i \in 1..CrowdSize |->
                    Link("c" \o ToString(i), "b1", Some((CrowdSize - i) * 100))]]

\* the supply graph built from the tables, with the donor plan's edges added
\* by G.add_edge before the graph is handed to EmergencyOrchestrator
OpsGraph(layout, plan, donor_plan) ==
    LET d == [DataSet(layout, plan) EXCEPT !.donors = donor_plan.donors]
        AddLink(g, l) ==
            add_edge(g, l.src, l.dst,
                     [predicate |-> l.predicate, distance_km |-> l.distance_km])
    IN FoldLeft(AddLink, build_supply_graph(d), donor_plan.links)

OpsConfigs ==
    {"near", "far", "nocoords", "mixed"} \X {"expiring", "wards", "wardskg"}
        \X {"none", "registered", "outward"}

DonorTypes == {"A+", "O-", "B+"}

OpsInit ==
    /\ \/ \E c \in OpsConfigs :
            G = OpsGraph(Layouts[c[1]], OpsUnitPlans[c[2]], DonorPlans[c[3]])
       \/ G = OpsGraph(Layouts["near"], OpsUnitPlans["expiring"], CrowdPlan)
    /\ gnn = "none"
    /\ active_transfers = <<>>
    /\ req = [r \in Requests |-> Idle]
    /\ greedy_call = NoGreedyCall
    /\ compat_call = NoCompatCall
    /\ ops_call = NoOpsCall
    /\ build_call = NoBuildCall

OptimizeInventory ==
    /\ ops_call' = [op |-> "optimize_inventory", blood_type |-> "",
                    result |-> optimize_inventory(G)]
    /\ UNCHANGED <<G, gnn, active_transfers, req, greedy_call, compat_call, build_call>>

PredictShortages ==
    /\ ops_call' = [op |-> "predict_shortages", blood_type |-> "",
                    result |-> predict_shortages(G)]
    /\ UNCHANGED <<G, gnn, active_transfers, req, greedy_call, compat_call, build_call>>

CallDonors ==
    /\ \E blood_type \in DonorTypes :
           ops_call' = [op |-> "call_donors", blood_type |-> blood_type,
                        result |-> call_donors(G, blood_type)]
    /\ UNCHANGED <<G, gnn, active_transfers, req, greedy_call, compat_call, build_call>>

OpsNext ==
    \/ OptimizeInventory
    \/ PredictShortages
    \/ CallDonors

OpsSpec == OpsInit /\ [][OpsNext]_vars

(***************************************************************************)
(* add_domain_edges called directly, on the graph of the hospital and      *)
(* blood bank tables and an edge table.                                    *)
(***************************************************************************)
\* the coordinates of a row: none, a latitude without longitude, the
\* equator, and latitudes 3000 m and 3001 m apart (nearby_km is 3000 m)
Positions ==
    {[lat |-> None, lon |-> None], [lat |-> Some(10000), lon |-> None]}
        \cup {[lat |-> Some(x), lon |-> Some(74000)] : x \in {0, 10000, 13000, 13001}}

EdgeRow(source, target, edge_type) ==
    [source |-> source, target |-> target, edge_type |-> edge_type]

\* edge tables: rows between a hospital and a bank under the default edge
\* type of add_edges_from_csv_table
EdgeTables ==
    {<<>>,
     <<EdgeRow("b1", "h1", "related_to")>>,
     <<EdgeRow("h1", "b2", "related_to"), EdgeRow("b2", "h2", "related_to")>>}

BuildInit ==
    /\ G = EmptyGraph
    /\ gnn = "none"
    /\ active_transfers = <<>>
    /\ req = [r \in Requests |-> Idle]
    /\ greedy_call = NoGreedyCall
    /\ compat_call = NoCompatCall
    /\ ops_call = NoOpsCall
    /\ \E h1 \in Positions, h2 \in Positions, b1 \in Positions, b2 \in Positions,
          edges_df \in EdgeTables :
        LET hospitals_df == <<[hospital_id |-> "h1", lat |-> h1.lat, lon |-> h1.lon],
                              [hospital_id |-> "h2", lat |-> h2.lat, lon |-> h2.lon]>>
            blood_banks_df == <<[bloodbank_id |-> "b1", lat |-> b1.lat, lon |-> b1.lon],
                                [bloodbank_id |-> "b2", lat |-> b2.lat, lon |-> b2.lon]>>
            entities == add_csv_entities(EmptyGraph, hospitals_df, blood_banks_df,
                                         <<>>, <<>>, <<>>)
        IN build_call = [hospitals_df |-> hospitals_df,
                         blood_banks_df |-> blood_banks_df,
                         graph |-> add_edges_from_csv_table(entities, edges_df),
                         returned |-> FALSE]

AddDomainEdges ==
    /\ ~build_call.returned
    /\ build_call' =
           [build_call EXCEPT
               !.graph = add_domain_edges(build_call.graph, build_call.hospitals_df,
                                          build_call.blood_banks_df, <<>>, <<>>, <<>>),
               !.returned = TRUE]
    /\ UNCHANGED <<G, gnn, active_transfers, req, greedy_call, compat_call, ops_call>>

BuildNext == AddDomainEdges

BuildSpec == BuildInit /\ [][BuildNext]_vars

(***************************************************************************)
(* The orchestrator's four public operations on one instance:              *)
(* handle_emergency without a scorer or with one that raises, interleaved  *)
(* with optimize_inventory, predict_shortages and call_donors.             *)
(***************************************************************************)
\* graphs on which every operation has something to return: units with a
\* row in the units table and a unit -> location relation, donors with
\* outward edges; one plan holds a unit that has no edge
\* a unit of the knowledge graph without any relation: compatible with every
\* recipient and about to expire
Unplaced == Unit("u0", "O-", 1, "", "", "kg")

PublicUnitPlans ==
    {StockPlans["crossed"], StockPlans["shared"], OpsUnitPlans["wardskg"],
     Append(StockPlans["crossed"], Unplaced)}

PublicInit ==
    /\ \E layout \in {"near", "far"}, plan \in PublicUnitPlans :
           G = OpsGraph(Layouts[layout], plan, DonorPlans["outward"])
    /\ gnn \in {"none", "raises"}
    /\ active_transfers = <<>>
    /\ req = [r \in Requests |-> Idle]
    /\ greedy_call = NoGreedyCall
    /\ compat_call = NoCompatCall
    /\ ops_call = NoOpsCall
    /\ build_call = NoBuildCall

PublicNext ==
    \/ \E r \in Requests : LocalCheck(r)
    \/ \E r \in Requests : FindSources(r)
    \/ \E r \in Requests : Allocate(r)
    \/ \E r \in Requests : Notify(r)
    \/ \E r \in Requests : Reserve(r)
    \/ \E r \in Requests : Respond(r)
    \/ OptimizeInventory
    \/ PredictShortages
    \/ CallDonors

PublicSpec == PublicInit /\ [][PublicNext]_vars

(***************************************************************************)
(* Properties.                                                             *)
(***************************************************************************)
LedgerUnits == {active_transfers[i].unit_id : i \in 1..Len(active_transfers)}
TransferUnits(transfers) == {transfers[i].unit_id : i \in 1..Len(transfers)}
SourceUnits(sources) ==
    UNION {TransferUnits(sources[i].available_units) : i \in 1..Len(sources)}
Returned(r) == req[r].pc = "done"
SetMax(S) == CHOOSE m \in S : \A n \in S : n <= m
Min(a, b) == IF a <= b THEN a ELSE b

\* C1: no unit is handed to two concurrent emergencies.  Two requests that
\* are both past their Reserve and have not returned yet are concurrent, and
\* hold the transfers they are about to return: these share no unit_id.
C1_NoDoubleReservation ==
    \A r1, r2 \in Requests :
        (r1 # r2 /\ req[r1].pc = "responding" /\ req[r2].pc = "responding")
        => TransferUnits(req[r1].transfers) \cap TransferUnits(req[r2].transfers) = {}

\* C2: every unit_id occurs in at most one entry of active_transfers.
C2_LedgerUnitsUnique ==
    \A i, j \in 1..Len(active_transfers) :
        i # j => active_transfers[i].unit_id # active_transfers[j].unit_id

\* C3: the local-inventory check counts no unit that has a ledger entry, and
\* source discovery returns no source whose available_units include one.
C3_ReservedUnitsExcluded ==
    [][\A r \in Requests :
          /\ (req[r].pc = "idle" /\ req'[r].pc # "idle")
             => Range(req'[r].local_units) \cap LedgerUnits = {}
          /\ (req[r].pc = "sourcing" /\ req'[r].pc # "sourcing")
             => SourceUnits(req'[r].compatible_sources) \cap LedgerUnits = {}]_vars

\* C4: while one request is between its source discovery and its Reserve
\* commit, no other request runs its source discovery or its Reserve.
C4_CheckThenReserveAtomic ==
    [][\A r1, r2 \in Requests :
          (r1 # r2 /\ req[r1].pc \in {"allocating", "notifying", "reserving"})
          => /\ ~(req[r2].pc = "sourcing" /\ req'[r2].pc # "sourcing")
             /\ ~(req[r2].pc = "reserving" /\ req'[r2].pc # "reserving")]_vars

\* the graph follows the data model: every blood unit has exactly one
\* LOCATED_AT edge unit -> location with the inverse HAS_BLOOD_UNIT edge, and
\* every HAS_BLOOD_UNIT edge is such an inverse
PrescribedGraph ==
    LET E == Range(G.edges)
        Units == {G.nodes[i] : i \in {n \in 1..Len(G.nodes) : G.data[n].kind = "blood_unit"}}
    IN /\ Units # {}
       /\ \A u \in Units :
              /\ Cardinality({e \in E : e.src = u /\ e.predicate = "LOCATED_AT"}) = 1
              /\ \A e \in E : (e.src = u /\ e.predicate = "LOCATED_AT")
                     => \E i \in E : i.src = e.dst /\ i.dst = u
                                     /\ i.predicate = "HAS_BLOOD_UNIT"
       /\ \A e \in E : e.predicate = "HAS_BLOOD_UNIT"
              => \E l \in E : l.src = e.dst /\ l.dst = e.src /\ l.predicate = "LOCATED_AT"

\* the compatible units located at a hospital, by the LOCATED_AT relation
LocatedCompatible(hospital_id, blood_type) ==
    {e.src : e \in {x \in Range(G.edges) :
                       /\ x.dst = hospital_id
                       /\ x.predicate = "LOCATED_AT"
                       /\ _is_compatible(NodeData(G, x.src).blood_type, blood_type)}}

\* C5: on a graph that follows the data model, a request whose hospital holds
\* at least units_required compatible units returns success, no transfers and
\* ETA 0.
C5_LocalSufficiency ==
    \A r \in Requests :
        (/\ Returned(r)
         /\ PrescribedGraph
         /\ Cardinality(LocatedCompatible(req[r].hospital_id, req[r].required_blood_type))
                >= req[r].units_required)
        => /\ req[r].result.status = "success"
           /\ req[r].result.transfers = <<>>
           /\ req[r].result.eta_minutes = 0

\* C6: a result is 'failed' only with zero compatible local units and zero
\* compatible sources, so with units_secured = 0.
C6_FailedMeansNothingFound ==
    \A r \in Requests :
        (Returned(r) /\ req[r].result.status = "failed")
        => /\ req[r].local_units = <<>>
           /\ req[r].compatible_sources = <<>>
           /\ req[r].result.units_secured = 0

\* C7: status is 'success' exactly when units_secured >= units_required, and
\* 'partial' implies 0 < units_secured < units_required, whatever the strategy.
C7_StatusMatchesUnitsSecured ==
    \A r \in Requests :
        Returned(r)
        => /\ (req[r].result.status = "success")
                  <=> (req[r].result.units_secured >= req[r].units_required)
           /\ (req[r].result.status = "partial")
                  => /\ 0 < req[r].result.units_secured
                     /\ req[r].result.units_secured < req[r].units_required

\* position of a location in the list of sources, of a unit in a source
SourceIndex(sources, loc) == CHOOSE i \in 1..Len(sources) : sources[i].location_id = loc
UnitIndex(source, unit_id) ==
    CHOOSE j \in 1..Len(source.available_units) : source.available_units[j].unit_id = unit_id

\* C8: the greedy allocator's output is ordered by source distance ascending,
\* by expiry ascending within a source, ties in input order, and a unit of a
\* source is taken only after every unit of every strictly closer source; on
\* sources at 2, 5, 1 km and 2 units needed it picks the 1 km source, then the
\* 2 km one; on the end-to-end example b2's four units in order, then b1's
\* unit that expires in 2 days.
C8_GreedyOrdering ==
    greedy_call.returned =>
    LET ts == greedy_call.transfers
        srcs == greedy_call.sources
        Src(t) == srcs[SourceIndex(srcs, t.from)]
    IN /\ \A i, j \in 1..Len(ts) :
              i < j =>
              /\ ts[i].distance_km <= ts[j].distance_km
              /\ (ts[i].distance_km = ts[j].distance_km /\ ts[i].from # ts[j].from)
                     => SourceIndex(srcs, ts[i].from) < SourceIndex(srcs, ts[j].from)
              /\ (ts[i].from = ts[j].from)
                     => /\ ts[i].expiry_days <= ts[j].expiry_days
                        /\ (ts[i].expiry_days = ts[j].expiry_days)
                               => UnitIndex(Src(ts[i]), ts[i].unit_id)
                                      < UnitIndex(Src(ts[j]), ts[j].unit_id)
       /\ \A j \in 1..Len(ts), k \in 1..Len(srcs) :
              srcs[k].distance_km < ts[j].distance_km
              => \A u \in TransferUnits(srcs[k].available_units) :
                     \E i \in 1..(j - 1) : ts[i].unit_id = u /\ ts[i].from = srcs[k].location_id
       /\ (srcs = OrderingExample /\ greedy_call.units_needed = 2)
              => [i \in 1..Len(ts) |-> ts[i].from] = <<"s3", "s1">>
       /\ (srcs = EndToEndExample /\ greedy_call.units_needed = 5)
              => [i \in 1..Len(ts) |-> ts[i].unit_id]
                     = <<"b2u1", "b2u2", "b2u3", "b2u4", "b1u2">>

C8_Witness ==
    /\ greedy_call.returned
    /\ greedy_call.sources = OrderingExample
    /\ greedy_call.units_needed = 2
    /\ Len(greedy_call.transfers) = 2
    /\ greedy_call.transfers[1].distance_km = 1000
    /\ greedy_call.transfers[2].distance_km = 2000

\* C9: the greedy allocator returns exactly min(units_needed, number of
\* available units over all sources) transfers, each for a unit that is in the
\* available_units of the source its 'from' names, and no unit twice.
C9_GreedyCount ==
    greedy_call.returned =>
    LET ts == greedy_call.transfers
        srcs == greedy_call.sources
        total == SeqSum([i \in 1..Len(srcs) |-> Len(srcs[i].available_units)])
    IN /\ Len(ts) = Min(greedy_call.units_needed, total)
       /\ \A i \in 1..Len(ts) :
              \E k \in 1..Len(srcs) :
                  /\ srcs[k].location_id = ts[i].from
                  /\ srcs[k].distance_km = ts[i].distance_km
                  /\ \E j \in 1..Len(srcs[k].available_units) :
                         /\ srcs[k].available_units[j].unit_id = ts[i].unit_id
                         /\ srcs[k].available_units[j].expiry_days = ts[i].expiry_days
                         /\ srcs[k].available_units[j].blood_type = ts[i].blood_type
       /\ \A i, j \in 1..Len(ts) : i # j => ts[i].unit_id # ts[j].unit_id

\* fewer units than needed over two sources: all of them are returned
C9_Witness ==
    /\ greedy_call.returned
    /\ Len(greedy_call.sources) = 2
    /\ greedy_call.units_needed = 3
    /\ Len(greedy_call.transfers) = 2
    /\ greedy_call.transfers[1].from # greedy_call.transfers[2].from

\* C10: eta_minutes is 3 times the largest distance_km among the returned
\* transfers, truncated to an integer, and 0 when there are no transfers.
C10_EtaFromLargestDistance ==
    \A r \in Requests :
        Returned(r) =>
        LET ts == req[r].result.transfers
        IN req[r].result.eta_minutes =
               IF ts = <<>> THEN 0
               ELSE (3 * SetMax({ts[i].distance_km : i \in 1..Len(ts)})) \div 1000

\* transfers at 1 km and 3 km give ETA 9
C10_Witness ==
    \E r \in Requests :
        /\ Returned(r)
        /\ {req[r].result.transfers[i].distance_km
               : i \in 1..Len(req[r].result.transfers)} = {1000, 3000}
        /\ req[r].result.eta_minutes = 9

(***************************************************************************)
(* Scorer failures.                                                        *)
(***************************************************************************)
\* the result of handle_emergency on an orchestrator with no scorer
\* (self.gnn is None): the steps of the method composed in program order
NoScorerResult(graph, hospital_id, required_blood_type, units_required) ==
    LET local_units == _check_local_inventory(graph, hospital_id, required_blood_type)
        units_needed == units_required - Len(local_units)
        compatible_sources ==
            _find_compatible_sources(graph, hospital_id, required_blood_type, units_needed)
        transfers == _greedy_allocation(hospital_id, compatible_sources, units_needed)
    IN IF units_needed <= 0
       THEN [NoResult EXCEPT !.status = "success", !.units_secured = Len(local_units)]
       ELSE IF compatible_sources = <<>>
       THEN [NoResult EXCEPT !.status = "failed", !.units_secured = Len(local_units)]
       ELSE [status |-> IF Len(transfers) >= units_needed THEN "success" ELSE "partial",
             transfers |-> transfers,
             units_secured |-> Len(local_units) + Len(transfers),
             eta_minutes |-> EtaMinutes(MaxEta(transfers)),
             notifications |-> _generate_notifications(hospital_id, transfers)]

\* the scorer raises on the call request r makes
RaisesFor(r) ==
    \/ gnn = "raises"
    \/ gnn = "learned"
       /\ ScorerRaises(G, req[r].emergency_id, req[r].required_blood_type)

\* C11: with a scorer that raises, the result of handle_emergency and the
\* entries it adds to the ledger are those of an orchestrator without scorer.
C11_FallbackTransparency ==
    [][\A r \in Requests :
          LET plain == NoScorerResult(G, req'[r].hospital_id,
                                      req'[r].required_blood_type,
                                      req'[r].units_required)
          IN (gnn = "raises" \/ (gnn = "learned" /\ req[r].pc # "idle" /\ RaisesFor(r)))
             => /\ (req[r].pc # "done" /\ req'[r].pc = "done")
                    => req'[r].result = plain
                /\ (req[r].pc = "reserving" /\ req'[r].pc = "responding")
                    => active_transfers' =
                           active_transfers \o
                           [i \in 1..Len(plain.transfers) |->
                               [unit_id |-> plain.transfers[i].unit_id,
                                status |-> "reserved"]]]_vars

\* a call with a raising scorer has returned two transfers
C11_Witness ==
    \E r \in Requests :
        /\ gnn = "raises"
        /\ Returned(r)
        /\ Len(req[r].result.transfers) = 2
        /\ req[r].result.notifications # <<>>
        /\ Len(active_transfers) >= 2

\* a call that waits in a scorer call that never returns: no step of the
\* program (no timeout, no cancellation) takes it out of this position
Blocked(r) == req[r].pc = "scoring"

\* C12: every request that has been made reaches its response, whatever the
\* scorer does: no call is ever held by a scorer call that does not return.
C12_NoRequestBlocks ==
    \A r \in Requests : ~Blocked(r)

(***************************************************************************)
(* Blood-type compatibility.                                               *)
(***************************************************************************)
\* the ABO antigens and the Rh factor of each of the 8 types
Antigens ==
    [t \in BloodTypes |->
        CASE t \in {"O-", "O+"}   -> {}
          [] t \in {"A-", "A+"}   -> {"A"}
          [] t \in {"B-", "B+"}   -> {"B"}
          [] t \in {"AB-", "AB+"} -> {"A", "B"}]
RhPositive == {"O+", "A+", "B+", "AB+"}

\* the standard one-way rule: the recipient has every antigen of the donor
StandardCanDonate(donor, recipient) ==
    /\ Antigens[donor] \subseteq Antigens[recipient]
    /\ (donor \in RhPositive => recipient \in RhPositive)

\* C13: on the 8 types _is_compatible is the standard one-way table (O-
\* donates to all 8, AB+ receives from all 8), and it is false when the
\* donor or the recipient is empty, None or no blood type.
C13_CompatibilityTable ==
    compat_call.returned =>
    LET d == compat_call.donor_type
        t == compat_call.recipient_type
    IN /\ (d \in BloodTypes /\ t \in BloodTypes)
              => (compat_call.result <=> StandardCanDonate(d, t))
       /\ (d \notin BloodTypes \/ t \notin BloodTypes) => ~compat_call.result
       /\ (d = "O-" /\ t \in BloodTypes) => compat_call.result
       /\ (t = "AB+" /\ d \in BloodTypes) => compat_call.result

\* a one-way pair: A+ donates to AB+ (and the call on the pair has returned)
C13_Witness ==
    /\ compat_call.returned
    /\ compat_call.donor_type = "A+"
    /\ compat_call.recipient_type = "AB+"
    /\ compat_call.result

(***************************************************************************)
(* Expiry.                                                                 *)
(***************************************************************************)
\* the unit's expiry_days_remaining is present and <= 0
Expired(unit_id) ==
    LET e == NodeData(G, unit_id).expiry_days_remaining
    IN e # None /\ e[1] <= 0

\* C14: a unit whose expiry_days_remaining is <= 0 is never counted as local
\* inventory, never in a source's available_units, never in a returned
\* transfer.
C14_ExpiredUnitsIneligible ==
    \A r \in Requests :
        /\ \A u \in Range(req[r].local_units) : ~Expired(u)
        /\ \A u \in SourceUnits(req[r].compatible_sources) : ~Expired(u)
        /\ \A u \in TransferUnits(req[r].result.transfers) : ~Expired(u)

Sourced(r) == req[r].pc \notin {"idle", "sourcing"} /\ req[r].units_needed > 0

\* the locations of the sources the discovery of request r returned
SourceLocs(r) ==
    {req[r].compatible_sources[i].location_id : i \in 1..Len(req[r].compatible_sources)}

\* the compatible units stocked at a location (HAS_BLOOD_UNIT in-edges)
Stock(loc, blood_type) ==
    {e.src : e \in {x \in Range(G.edges) :
                       /\ x.dst = loc
                       /\ x.predicate = "HAS_BLOOD_UNIT"
                       /\ _is_compatible(NodeData(G, x.src).blood_type, blood_type)}}

\* the blood banks and hospitals a hospital has a NEARBY out-edge to
NearbyNeighbours(hospital_id) ==
    {e.dst : e \in {x \in Range(G.edges) :
                       /\ x.src = hospital_id
                       /\ x.predicate = "NEARBY"
                       /\ NodeData(G, x.dst).kind \in {"bloodbank", "hospital"}}}

\* the sources of the fast path: the NEARBY neighbours that hold stock
FastLocs(hospital_id, blood_type) ==
    {n \in NearbyNeighbours(hospital_id) : Stock(n, blood_type) # {}}

\* the node has a latitude and a longitude
HasCoordinates(n) == NodeData(G, n).lat # None /\ NodeData(G, n).lon # None

\* the blood banks and the other hospitals that have coordinates, lie within
\* 20 km of the hospital and hold stock
FallbackCandidates(hospital_id, blood_type) ==
    {n \in Range(G.nodes) :
        /\ \/ NodeData(G, n).kind = "bloodbank"
           \/ NodeData(G, n).kind = "hospital" /\ n # hospital_id
        /\ HasCoordinates(n)
        /\ haversine(NodeData(G, hospital_id).lat[1], NodeData(G, hospital_id).lon[1],
                     NodeData(G, n).lat[1], NodeData(G, n).lon[1]) <= max_distance
        /\ Stock(n, blood_type) # {}}

\* C16: the fallback scan contributes sources exactly when the fast path
\* produced none and the hospital has coordinates; the returned list never
\* mixes sources of the two paths.
C16_OnePathPerCall ==
    \A r \in Requests :
        (Sourced(r) /\ HasNode(G, req[r].hospital_id)) =>
        LET h == req[r].hospital_id
            fast == FastLocs(h, req[r].required_blood_type)
        IN /\ fast # {} => SourceLocs(r) = fast
           /\ (fast = {} /\ ~HasCoordinates(h)) => SourceLocs(r) = {}
           /\ (fast = {} /\ HasCoordinates(h)
                 /\ FallbackCandidates(h, req[r].required_blood_type) # {})
              => SourceLocs(r) # {}

\* C17: a hospital with a NEARBY out-edge to a blood bank or hospital gets
\* only NEARBY neighbours as sources, never a source of the 20 km scan.
C17_NeighbourBlocksFallback ==
    \A r \in Requests :
        (Sourced(r) /\ NearbyNeighbours(req[r].hospital_id) # {})
        => SourceLocs(r) \subseteq NearbyNeighbours(req[r].hospital_id)

\* the fallback path runs: the fast path gave no source and the test
\* of the hospital's coordinates at line 268 passes
FallbackRuns(r) ==
    /\ HasNode(G, req[r].hospital_id)
    /\ FastLocs(req[r].hospital_id, req[r].required_blood_type) = {}
    /\ Truthy(NodeData(G, req[r].hospital_id).lat)
    /\ Truthy(NodeData(G, req[r].hospital_id).lon)

\* C18: when the fallback path runs the sources are exactly the blood banks
\* and the other hospitals that have coordinates, lie within 20 km and hold
\* at least one compatible unit.
C18_FallbackSources ==
    \A r \in Requests :
        (Sourced(r) /\ FallbackRuns(r))
        => SourceLocs(r) = FallbackCandidates(req[r].hospital_id,
                                              req[r].required_blood_type)

(***************************************************************************)
(* Notifications and the ledger.                                           *)
(***************************************************************************)
\* the call of request r returned from the end of handle_emergency (it made
\* a transfer plan)
Allocated(r) ==
    Returned(r) /\ req[r].units_needed > 0 /\ req[r].compatible_sources # <<>>

\* C19: a result that reached allocation carries exactly one 'blood_incoming'
\* notification, addressed to the requesting hospital, and exactly one
\* 'transfer_request' notification per distinct source location of the
\* transfers.
C19_OneRequestPerSource ==
    \A r \in Requests :
        Allocated(r) =>
        LET ns == req[r].result.notifications
            ts == req[r].result.transfers
            Incoming == {i \in 1..Len(ns) : ns[i].type = "blood_incoming"}
            RequestsTo(loc) ==
                {i \in 1..Len(ns) : ns[i].type = "transfer_request" /\ ns[i].recipient = loc}
            Froms == {ts[i].from : i \in 1..Len(ts)}
        IN /\ Cardinality(Incoming) = 1
           /\ \A i \in Incoming : ns[i].recipient = req[r].hospital_id
           /\ \A loc \in Froms : Cardinality(RequestsTo(loc)) = 1
           /\ Len(ns) = 1 + Cardinality(Froms)

\* C20: the Reserve step of a call appends to the ledger one entry per
\* transfer, with the transfer's unit_id and status 'reserved', in transfer
\* order and without deduplication: the ledger grows by len(transfers).
C20_ReserveAppendsEveryTransfer ==
    [][\A r \in Requests :
          (req[r].pc = "reserving" /\ req'[r].pc = "responding")
          => /\ active_transfers' =
                    active_transfers \o
                    [i \in 1..Len(req[r].transfers) |->
                        [unit_id |-> req[r].transfers[i].unit_id, status |-> "reserved"]]
             /\ Len(active_transfers') = Len(active_transfers) + Len(req[r].transfers)]_vars

\* a call has reserved two transfers, one of a unit that was in the ledger
\* already
C20_Witness ==
    \E r \in Requests :
        /\ req[r].pc = "responding"
        /\ Len(req[r].transfers) = 2
        /\ Len(active_transfers) >= 3
        /\ \E i, j \in 1..Len(active_transfers) :
               i < j /\ active_transfers[i].unit_id = active_transfers[j].unit_id

(***************************************************************************)
(* C21: a handle_emergency call that returns at the local check ('success' *)
(* from the hospital's own inventory) or after source discovery ('failed', *)
(* no sources) leaves the reservation ledger as it was: every step of a    *)
(* call up to and including those two returns leaves active_transfers      *)
(* unchanged.                                                              *)
(***************************************************************************)
C21_EarlyReturnsLeaveLedger ==
    [][\A r \in Requests :
          (req[r].pc \in {"idle", "sourcing"} /\ req'[r] # req[r])
          => active_transfers' = active_transfers]_vars

\* one call has returned 'failed' and another 'success' from local
\* inventory, or one of them while the ledger holds another call's entries
C21_Witness ==
    \E r, q \in Requests :
        /\ r # q
        /\ Returned(r)
        /\ req[r].result.status = "failed"
        /\ req[r].local_units # <<>>
        /\ \/ /\ Returned(q)
              /\ req[q].result.status = "success"
              /\ req[q].result.transfers = <<>>
           \/ active_transfers # <<>>

(***************************************************************************)
(* C22: no operation of the orchestrator removes or alters a ledger entry: *)
(* every step other than the driver's bulk clear leaves the ledger as it   *)
(* was or extends it, so that between two clears every earlier ledger is a *)
(* prefix of every later one.                                              *)
(***************************************************************************)
IsPrefix(s, t) == Len(s) <= Len(t) /\ SubSeq(t, 1, Len(s)) = s

C22_LedgerOnlyGrows ==
    [][Clear \/ IsPrefix(active_transfers, active_transfers')]_vars

\* the ledger holds the entries of two calls, the second after the first
C22_Witness ==
    \E r, q \in Requests :
        /\ r # q
        /\ req[r].pc \in {"responding", "done"} /\ req[r].transfers # <<>>
        /\ req[q].pc \in {"responding", "done"} /\ req[q].transfers # <<>>
        /\ active_transfers =
               _reserve_units(_reserve_units(<<>>, req[r].transfers), req[q].transfers)

(***************************************************************************)
(* C23: the driver's bulk clear runs only between rounds, never while an   *)
(* emergency request is between its source discovery and its response: a   *)
(* request that has reserved its units and is assembling its response      *)
(* still finds every one of them in the ledger.                            *)
(***************************************************************************)
C23_ClearOnlyBetweenRounds ==
    \A r \in Requests :
        req[r].pc = "responding" => TransferUnits(req[r].transfers) \subseteq LedgerUnits

(***************************************************************************)
(* C24: no handle_emergency call leaves the ledger partially written: each *)
(* step of a call, also of one that ends with an exception because the     *)
(* scorer returned a malformed transfer, leaves the ledger unchanged or    *)
(* extends it by one entry for every transfer of the call.                 *)
(***************************************************************************)
EntriesFor(transfers) ==
    [i \in 1..Len(transfers) |-> [unit_id |-> transfers[i].unit_id, status |-> "reserved"]]

C24_NoPartialWrite ==
    [][\A r \in Requests :
          req'[r] # req[r]
          => \/ active_transfers' = active_transfers
             \/ active_transfers' = active_transfers \o EntriesFor(req[r].transfers)]_vars

\* a call given two transfers, the second malformed, has ended with the
\* exception, and the ledger has no entry for the first
C24_Witness ==
    \E r \in Requests :
        /\ req[r].pc = "raised"
        /\ Len(req[r].transfers) = 2
        /\ ~Malformed(req[r].transfers[1])
        /\ Malformed(req[r].transfers[2])
        /\ active_transfers = <<>>

(***************************************************************************)
(* C25: a request to /api/emergency that lacks a required field is         *)
(* answered with a validation error the caller can tell apart from the     *)
(* answer to a request whose allocation failed or raised: its status code  *)
(* or the fields of its body differ from theirs.                           *)
(***************************************************************************)
ResponseKind(r) == [code |-> HttpResponse(r).code, fields |-> HttpResponse(r).fields]

C25_ValidationErrorDistinct ==
    \A r, q \in Requests :
        (/\ req[r].pc = "rejected"
         /\ \/ req[q].pc = "raised"
            \/ Returned(q) /\ req[q].result.status = "failed")
        => ResponseKind(r) # ResponseKind(q)

(***************************************************************************)
(* C26: optimize_inventory returns exactly one action for a blood unit if  *)
(* its expiry_days_remaining is <= 2, it has a LOCATED_AT location and     *)
(* that location has a NEARBY out-edge to a hospital, and no action        *)
(* otherwise; the action's 'from' is that location and its 'to' such a     *)
(* hospital.  A unit with expiry 5 yields no action, a unit with expiry 1  *)
(* at a bank with exactly one NEARBY hospital one action to that hospital. *)
(***************************************************************************)
Edges == Range(G.edges)

BloodUnits == {n \in Range(G.nodes) : NodeData(G, n).kind = "blood_unit"}

Locations(unit_id) ==
    {e.dst : e \in {x \in Edges : x.src = unit_id /\ x.predicate = "LOCATED_AT"}}

NearbyHospitals(loc) ==
    {e.dst : e \in {x \in Edges : /\ x.src = loc
                                  /\ x.predicate = "NEARBY"
                                  /\ NodeData(G, x.dst).kind = "hospital"}}

ExpiresWithin(unit_id, days) ==
    /\ NodeData(G, unit_id).expiry_days_remaining # None
    /\ NodeData(G, unit_id).expiry_days_remaining[1] <= days

ActionsFor(unit_id) ==
    {i \in 1..Len(ops_call.result) : ops_call.result[i].unit_id = unit_id}

C26_ExpiryPrevention ==
    ops_call.op = "optimize_inventory" =>
        \A u \in BloodUnits :
            /\ Cardinality(ActionsFor(u)) =
                   IF /\ ExpiresWithin(u, 2)
                      /\ \E loc \in Locations(u) : NearbyHospitals(loc) # {}
                   THEN 1 ELSE 0
            /\ \A i \in ActionsFor(u) :
                   /\ ops_call.result[i].from \in Locations(u)
                   /\ ops_call.result[i].to \in NearbyHospitals(ops_call.result[i].from)
            /\ NodeData(G, u).expiry_days_remaining = Some(5) => ActionsFor(u) = {}
            /\ \A loc \in Locations(u), h \in Range(G.nodes) :
                   (/\ NodeData(G, u).expiry_days_remaining = Some(1)
                    /\ NodeData(G, loc).kind = "bloodbank"
                    /\ NearbyHospitals(loc) = {h})
                   => \E i \in 1..Len(ops_call.result) :
                          /\ ActionsFor(u) = {i}
                          /\ ops_call.result[i].to = h

\* u1 (expiry 1) lies at bank b1 whose only NEARBY hospital is h2, and is
\* sent there; u2 (expiry 5) at the same bank is left alone
C26_Witness ==
    /\ ops_call.op = "optimize_inventory"
    /\ NodeData(G, "u1").expiry_days_remaining = Some(1)
    /\ Locations("u1") = {"b1"}
    /\ NearbyHospitals("b1") = {"h2"}
    /\ \E i \in 1..Len(ops_call.result) :
           /\ ops_call.result[i].unit_id = "u1"
           /\ ops_call.result[i].from = "b1"
           /\ ops_call.result[i].to = "h2"
    /\ NodeData(G, "u2").expiry_days_remaining = Some(5)
    /\ ActionsFor("u2") = {}

(***************************************************************************)
(* C27: on a graph that follows the data model, predict_shortages reports  *)
(* for each hospital and each blood type of which the hospital holds       *)
(* c >= 1 units: risk 'high' when c < 2, 'medium' when 2 <= c < 5, and no  *)
(* warning when c >= 5, with current_units = c and a request for 10 - c.   *)
(***************************************************************************)
Hospitals == {n \in Range(G.nodes) : NodeData(G, n).kind = "hospital"}

\* the units of a type the hospital holds, by the LOCATED_AT relation
Held(hospital_id, blood_type) ==
    {u \in BloodUnits : /\ hospital_id \in Locations(u)
                        /\ NodeData(G, u).blood_type = blood_type}

WarningsFor(hospital_id, blood_type) ==
    {i \in 1..Len(ops_call.result) :
        /\ ops_call.result[i].hospital_id = hospital_id
        /\ ops_call.result[i].blood_type = blood_type}

C27_ShortageThresholds ==
    (ops_call.op = "predict_shortages" /\ PrescribedGraph) =>
        \A h \in Hospitals, bt \in BloodTypes :
            LET c == Cardinality(Held(h, bt))
            IN c >= 1 =>
                  IF c >= 5 THEN WarningsFor(h, bt) = {}
                  ELSE \E i \in 1..Len(ops_call.result) :
                          /\ WarningsFor(h, bt) = {i}
                          /\ ops_call.result[i].current_units = c
                          /\ ops_call.result[i].risk_level =
                                 (IF c < 2 THEN "high" ELSE "medium")
                          /\ ops_call.result[i].recommended_units = 10 - c

(***************************************************************************)
(* C28: on a graph whose donor proximity edges follow the data model       *)
(* (NEARBY edges bank -> donor), call_donors(blood_type) includes every    *)
(* donor whose blood type is blood_type or O- (up to the 50 entries it     *)
(* returns), each paired with its nearest blood bank.                      *)
(***************************************************************************)
Donors == {n \in Range(G.nodes) : NodeData(G, n).kind = "donor"}

\* the NEARBY edges bank -> donor of the donor
BankEdges(donor_id) ==
    {e \in Edges : /\ e.dst = donor_id
                   /\ e.predicate = "NEARBY"
                   /\ NodeData(G, e.src).kind = "bloodbank"}

\* every NEARBY edge at a donor runs bank -> donor
PrescribedDonorEdges ==
    \A e \in Edges :
        (e.predicate = "NEARBY" /\ (e.src \in Donors \/ e.dst \in Donors))
        => e \in BankEdges(e.dst)

Eligible(blood_type) ==
    {d \in Donors : /\ NodeData(G, d).blood_type \in {blood_type, "O-"}
                    /\ BankEdges(d) # {}}

C28_EligibleDonorsIncluded ==
    (/\ ops_call.op = "call_donors"
     /\ PrescribedDonorEdges
     /\ Cardinality(Eligible(ops_call.blood_type)) <= 50)
    => \A d \in Eligible(ops_call.blood_type) :
           \E i \in 1..Len(ops_call.result) :
               /\ ops_call.result[i].donor_id = d
               /\ \E e \in BankEdges(d) :
                      /\ ops_call.result[i].nearest_center = e.src
                      /\ \A f \in BankEdges(d) : e.distance_km[1] <= f.distance_km[1]

(***************************************************************************)
(* C29: the list call_donors returns has at most 50 entries, has every     *)
(* exact-type match before every O- substitute and non-decreasing          *)
(* distances within each group, and pairs each donor with a bloodbank      *)
(* among its NEARBY neighbours whose distance_km is least.                 *)
(***************************************************************************)
\* the NEARBY edges donor -> bank of the donor
CentreEdges(donor_id) ==
    {e \in Edges : /\ e.src = donor_id
                   /\ e.predicate = "NEARBY"
                   /\ NodeData(G, e.dst).kind = "bloodbank"}

\* distance_km of an edge, 10 km when the edge carries none
EdgeDistance(e) == IF e.distance_km = None THEN DefaultDonorDistance ELSE e.distance_km[1]

Substitute(entry) == IF entry.blood_type = ops_call.blood_type THEN 0 ELSE 1

C29_DonorListOrdered ==
    ops_call.op = "call_donors" =>
        /\ Len(ops_call.result) <= 50
        /\ \A i, j \in 1..Len(ops_call.result) :
               i < j =>
                  /\ Substitute(ops_call.result[i]) <= Substitute(ops_call.result[j])
                  /\ Substitute(ops_call.result[i]) = Substitute(ops_call.result[j])
                         => ops_call.result[i].distance_km <= ops_call.result[j].distance_km
        /\ \A i \in 1..Len(ops_call.result) :
               \E e \in CentreEdges(ops_call.result[i].donor_id) :
                   /\ ops_call.result[i].nearest_center = e.dst
                   /\ ops_call.result[i].distance_km = EdgeDistance(e)
                   /\ \A f \in CentreEdges(ops_call.result[i].donor_id) :
                          EdgeDistance(e) <= EdgeDistance(f)

\* more than 50 donors qualify and 50 are returned, the A+ donors first;
\* within the A+ donors the later nodes, which live nearer, come first
C29_Witness ==
    /\ ops_call.op = "call_donors"
    /\ ops_call.blood_type = "A+"
    /\ Cardinality({d \in Donors : CentreEdges(d) # {}}) > 50
    /\ Len(ops_call.result) = 50
    /\ ops_call.result[1].blood_type = "A+"
    /\ ops_call.result[1].distance_km < ops_call.result[2].distance_km
    /\ NodeIndex(G, ops_call.result[1].donor_id) > NodeIndex(G, ops_call.result[2].donor_id)
    /\ ops_call.result[50].blood_type = "O-"

(***************************************************************************)
(* C30: within one emergency request the reservation precedes the          *)
(* notifications: a request whose notifications have been generated has    *)
(* already committed its transfers' units to the ledger.                   *)
(***************************************************************************)
C30_ReserveBeforeNotify ==
    \A r \in Requests :
        req[r].notifications # <<>> => req[r].pc \in {"responding", "done"}

(***************************************************************************)
(* Frame of the public operations.                                         *)
(***************************************************************************)
\* C31: no step of handle_emergency (no scorer, or a scorer that raises),
\* optimize_inventory, predict_shortages or call_donors changes the graph
\* (or the scorer reference); the ledger changes only in the reserve step of
\* handle_emergency, by the entries of that call's transfers, and never in a
\* step of the three other operations.
C31_OperationsLeaveGraph ==
    [][/\ G' = G
       /\ gnn' = gnn
       /\ active_transfers' # active_transfers
              => \E r \in Requests :
                     /\ req[r].pc = "reserving"
                     /\ req'[r].pc = "responding"
                     /\ active_transfers' =
                            active_transfers \o EntriesFor(req[r].transfers)
       /\ ops_call' # ops_call
              => /\ active_transfers' = active_transfers
                 /\ req' = req]_vars

\* a call of handle_emergency has reserved units and one of the other
\* operations has returned a non-empty list on the same graph
C31_Witness ==
    /\ active_transfers # <<>>
    /\ \E r \in Requests : Returned(r) /\ req[r].result.transfers # <<>>
    /\ ops_call.op # ""
    /\ ops_call.result # <<>>

(***************************************************************************)
(* Determinism of the allocation.                                          *)
(***************************************************************************)
SameRequest(r1, r2) ==
    /\ req[r1].hospital_id = req[r2].hospital_id
    /\ req[r1].required_blood_type = req[r2].required_blood_type
    /\ req[r1].units_required = req[r2].units_required

\* C32: with no scorer, two handle_emergency calls that have returned for
\* the same hospital, blood type and units_required on the same graph hold
\* the same status, the same transfers in the same order, the same
\* units_secured and the same eta_minutes, whatever the ledger held when
\* each of them ran.
C32_AllocationDeterministic ==
    gnn = "none"
        => \A r1, r2 \in Requests :
               (Returned(r1) /\ Returned(r2) /\ SameRequest(r1, r2))
                   => /\ req[r1].result.status = req[r2].result.status
                      /\ req[r1].result.transfers = req[r2].result.transfers
                      /\ req[r1].result.units_secured = req[r2].result.units_secured
                      /\ req[r1].result.eta_minutes = req[r2].result.eta_minutes

\* two calls for the same request have returned the same two transfers, and
\* the ledger holds the entries of both calls
C32_Witness ==
    /\ gnn = "none"
    /\ \E r1, r2 \in Requests :
           /\ r1 # r2
           /\ Returned(r1) /\ Returned(r2)
           /\ SameRequest(r1, r2)
           /\ Len(req[r1].result.transfers) = 2
           /\ req[r1].result.transfers = req[r2].result.transfers
           /\ active_transfers = EntriesFor(req[r1].result.transfers)
                                     \o EntriesFor(req[r2].result.transfers)

(***************************************************************************)
(* Units without a location.                                               *)
(***************************************************************************)
\* the blood units with no LOCATED_AT and no HAS_BLOOD_UNIT edge, in either
\* direction
UnplacedUnits ==
    {u \in BloodUnits :
        \A e \in Edges : (e.src = u \/ e.dst = u)
                             => e.predicate \notin {"LOCATED_AT", "HAS_BLOOD_UNIT"}}

\* C33: a blood unit without any location edge is in no call's local
\* inventory, in no source's available units, in no transfer of a call or
\* of its result, and in no action optimize_inventory returns; every
\* operation on a graph that holds such a unit runs to its return.
C33_UnplacedUnitsUnreachable ==
    \A u \in UnplacedUnits :
        /\ \A r \in Requests :
               /\ u \notin Range(req[r].local_units)
               /\ u \notin SourceUnits(req[r].compatible_sources)
               /\ u \notin TransferUnits(req[r].transfers)
               /\ u \notin TransferUnits(req[r].result.transfers)
               /\ req[r].pc # "raised"
        /\ u \notin LedgerUnits
        /\ ops_call.op = "optimize_inventory" => ActionsFor(u) = {}

\* on a graph with an unplaced O- unit that expires in a day, a call for a
\* compatible type has returned transfers and optimize_inventory has
\* returned actions
C33_Witness ==
    \E u \in UnplacedUnits :
        /\ ExpiresWithin(u, 2)
        /\ \E r \in Requests :
               /\ Returned(r)
               /\ req[r].result.transfers # <<>>
               /\ _is_compatible(NodeData(G, u).blood_type, req[r].required_blood_type)
        /\ ops_call.op = "optimize_inventory"
        /\ ops_call.result # <<>>

(***************************************************************************)
(* NEARBY edges between hospitals and blood banks.                         *)
(***************************************************************************)
\* the NEARBY edges u -> v of the graph add_domain_edges returned
NearbyEdge(u, v) ==
    {e \in Range(build_call.graph.edges) :
        e.src = u /\ e.dst = v /\ e.predicate = "NEARBY"}

\* the distance of two table rows in metres, None when a coordinate is missing
RowDistance(hrow, bbrow) ==
    IF hrow.lat = None \/ hrow.lon = None \/ bbrow.lat = None \/ bbrow.lon = None
    THEN None
    ELSE Some(Abs(hrow.lat[1] - bbrow.lat[1]))

DiscoveredLocations(r) ==
    {req[r].compatible_sources[i].location_id : i \in 1..Len(req[r].compatible_sources)}

\* C35: under every allocation strategy, every transfer handle_emergency
\* returns goes to the requesting hospital, comes from a location source
\* discovery returned for the request, and carries a unit of a compatible
\* type that is not one of the call's local units.
C35_TransfersWithinSources ==
    \A r \in Requests :
        Returned(r) =>
            \A i \in 1..Len(req[r].result.transfers) :
                LET t == req[r].result.transfers[i]
                IN /\ t.to = req[r].hospital_id
                   /\ t.from \in DiscoveredLocations(r)
                   /\ _is_compatible(t.blood_type, req[r].required_blood_type)
                   /\ t.unit_id \notin Range(req[r].local_units)

(***************************************************************************)
(* No over-allocation.                                                     *)
(***************************************************************************)
\* units_required - len(local_units) of a call
Deficit(r) == req[r].units_required - Len(req[r].local_units)

\* C36 as stated: in every result the number of transfers is at most the
\* deficit units_required minus the local compatible count.
C36_TransfersWithinDeficit ==
    \A r \in Requests :
        Returned(r) => Len(req[r].result.transfers) <= Deficit(r)

\* C36: in every result the number of transfers is at most the deficit
\* units_required minus the local compatible count when that deficit is
\* positive, and zero when it is not; so whenever at least one transfer is
\* returned, units_secured does not exceed units_required.
C36_NoOverAllocation ==
    \A r \in Requests :
        Returned(r) =>
            /\ Len(req[r].result.transfers) <= (IF Deficit(r) > 0 THEN Deficit(r) ELSE 0)
            /\ req[r].result.transfers # <<>>
                   => req[r].result.units_secured <= req[r].units_required

\* a call that counted a local unit has returned exactly its deficit in
\* transfers although its sources held more compatible units
C36_Witness ==
    \E r \in Requests :
        /\ Returned(r)
        /\ req[r].local_units # <<>>
        /\ req[r].result.transfers # <<>>
        /\ Len(req[r].result.transfers) = Deficit(r)
        /\ Cardinality(SourceUnits(req[r].compatible_sources)) > Deficit(r)

(***************************************************************************)
(* Transfers of one greedy call.                                           *)
(***************************************************************************)
\* the targets of a unit's out-edges of one kind
Targets(unit_id, predicate) ==
    {e.dst : e \in {x \in Edges : x.src = unit_id /\ x.predicate = predicate}}

\* every unit has at most one location: at most one LOCATED_AT target and
\* at most one location that holds it by a HAS_BLOOD_UNIT in-edge
OneLocationPerUnit ==
    \A u \in BloodUnits :
        /\ Cardinality(Targets(u, "LOCATED_AT")) <= 1
        /\ Cardinality(Targets(u, "HAS_BLOOD_UNIT")) <= 1

\* the call of request r allocates greedily
Greedy(r) == gnn \in {"none", "raises"}

\* C37: on a graph in which every unit has at most one location, source
\* discovery returns each location at most once, and the transfers a greedy
\* handle_emergency call returns hold no unit_id twice and give each source
\* location one distance_km, the one source discovery returned for it.
C37_GreedyTransfersDistinct ==
    OneLocationPerUnit =>
        \A r \in Requests :
            Greedy(r) =>
                LET sources == req[r].compatible_sources
                    transfers == req[r].result.transfers
                IN /\ \A i, j \in 1..Len(sources) :
                          sources[i].location_id = sources[j].location_id => i = j
                   /\ \A i, j \in 1..Len(transfers) :
                          /\ transfers[i].unit_id = transfers[j].unit_id => i = j
                          /\ transfers[i].from = transfers[j].from
                                 => transfers[i].distance_km = transfers[j].distance_km
                   /\ \A i \in 1..Len(transfers) :
                          \E k \in 1..Len(sources) :
                              /\ sources[k].location_id = transfers[i].from
                              /\ sources[k].distance_km = transfers[i].distance_km

\* a greedy call has found two sources and returned two different units
\* of the nearer one, both with that source's distance
C37_Witness ==
    /\ OneLocationPerUnit
    /\ \E r \in Requests :
           /\ Greedy(r)
           /\ Returned(r)
           /\ Len(req[r].compatible_sources) = 2
           /\ Len(req[r].result.transfers) = 2
           /\ req[r].result.transfers[1].from = req[r].result.transfers[2].from
           /\ req[r].result.transfers[1].unit_id # req[r].result.transfers[2].unit_id

====
